---------------------------- MODULE Spec2Model ----------------------------
(***************************************************************************)
(* InputManager (src/src/input.js, and its commented variant               *)
(* src/unnamed/part_000): keyboard, gamepad and touch input unified into    *)
(* one polled state { axis: {x, y}, jump, sprint }.                         *)
(*                                                                         *)
(* Numbers.  The program computes in IEEE doubles.  The model computes in   *)
(* fixed point: an axis value v is the integer v * Scale, a pixel           *)
(* coordinate p is the integer p * PxScale.  Every division truncates       *)
(* toward zero and Hypot rounds up, so a value the program bounds by 1      *)
(* (a normalised vector) is never pushed over the bound by the model's      *)
(* rounding.  The three operations of lerp round to the nearest value, as   *)
(* the floating-point operations do, with the coarser step that a double    *)
(* has from 1.0 on.                                                         *)
(***************************************************************************)
EXTENDS Integers, FiniteSets, Sequences, TLC

\* Fixed-point unit of axis values: 1.0 is Scale.
Scale == 10 * 10 * 10 * 10

\* Fixed-point unit of pointer coordinates: one CSS pixel is PxScale.
PxScale == 10 * 10

\* opts.deadzone ?? 0.15
DefaultDeadzone == (15 * Scale) \div 100

\* opts.smooth ?? 0.2
DefaultSmooth == (2 * Scale) \div 10

\* opts.joystickRadius ?? 60 (pixels)
DefaultJoystickRadius == 60

\* The activity threshold of update(): Math.abs(v.x) > 0.001
Epsilon == Scale \div 1000

\* normalize2: if (len < 1e-6) return {0, 0}.  1e-6 is below the model's
\* resolution (1 / Scale), so only the length 0 is under it.
TinyLen == Scale \div 1000000

-----------------------------------------------------------------------------
(* Vector utilities (pure functions)                                       *)

Abs(v) == IF v < 0 THEN -v ELSE v

Sign(v) == IF v > 0 THEN 1 ELSE IF v < 0 THEN -1 ELSE 0

Min(a, b) == IF a < b THEN a ELSE b

Max(a, b) == IF a > b THEN a ELSE b

\* a / b for b > 0, truncated toward zero.
TruncDiv(a, b) == IF a >= 0 THEN a \div b ELSE -((-a) \div b)

RECURSIVE SqrtSearch(_, _, _)
\* The least r in lo..hi with r * r >= n (hi * hi >= n is given).
SqrtSearch(n, lo, hi) ==
    IF lo >= hi THEN hi
    ELSE LET mid == (lo + hi) \div 2
         IN  IF mid * mid >= n THEN SqrtSearch(n, lo, mid)
             ELSE SqrtSearch(n, mid + 1, hi)

\* Math.hypot(x, y), rounded up: it lies between the larger of |x|, |y| and
\* their sum.
Hypot(x, y) == SqrtSearch(x * x + y * y, Max(Abs(x), Abs(y)), Abs(x) + Abs(y))

\* function clamp(v, a, b) { return Math.max(a, Math.min(b, v)); }
clamp(v, a, b) == Max(a, Min(b, v))

\* a / b for b > 0, rounded to the nearest integer, a tie to the even one:
\* the rounding of the floating-point operations.
RoundDiv(a, b) ==
    LET n == Abs(a)
        q == n \div b
        r == n % b
        up == IF 2 * r > b \/ (2 * r = b /\ q % 2 = 1) THEN 1 ELSE 0
    IN  Sign(a) * (q + up)

\* lerp stepping past b: the factor t + 1 in place of clamp(t, 0, 1).
lerpOvershoot(a, b, t) == a + RoundDiv((b - a) * (Scale + t), Scale)

\* The floating-point value nearest to n / b (b > 0), a tie to the even one.
\* A double carries a fixed number of significant bits, so the step between
\* neighbouring values doubles at every power of two: below 1.0 the model's
\* step is 1 / Scale, in [1, 2) it is 2 / Scale, in [2, 4) it is 4 / Scale.
flDiv(n, b) ==
    IF Abs(n) < Scale * b THEN RoundDiv(n, b)
    ELSE IF Abs(n) < 2 * Scale * b THEN 2 * RoundDiv(n, 2 * b)
    ELSE 4 * RoundDiv(n, 4 * b)

\* The rounding of the result of one floating-point operation: a value below
\* 1.0 is on the grid already.
fl(v) == IF Abs(v) < Scale THEN v ELSE flDiv(v, 1)

\* lerp without the clamp of the factor: a + (b - a) * t.
lerpUnclamped(a, b, t) ==
    CHOOSE r \in {fl(a + p) : p \in {flDiv(d * t, Scale) : d \in {fl(b - a)}}} : TRUE

\* function lerp(a, b, t) { return a + (b - a) * clamp(t, 0, 1); }
\* Each of the three operations rounds its result to the nearest value: the
\* difference d, the product p, the sum r.
lerp(a, b, t) ==
    CHOOSE r \in {fl(a + p) : p \in {flDiv(d * f, Scale) :
                      d \in {fl(b - a)}, f \in {clamp(t, 0, Scale)}}} : TRUE

\* normalize2 without the limit to the unit circle: m = 1.
normalize2Unlimited(x, y) ==
    IF Hypot(x, y) <= TinyLen THEN [x |-> 0, y |-> 0] ELSE [x |-> x, y |-> y]

\* function normalize2(x, y): the vector limited to the unit circle.
normalize2(x, y) ==
    LET len == Hypot(x, y)
    IN  IF len <= TinyLen THEN [x |-> 0, y |-> 0]
        ELSE [x |-> TruncDiv(x * Scale, Max(Scale, len)),
              y |-> TruncDiv(y * Scale, Max(Scale, len))]

\* applyDeadzone without the rescaling of the rest of the range.
applyDeadzoneNoRescale(v, dz) == IF Abs(v) <= dz THEN 0 ELSE v

\* function applyDeadzone(v, dz)
applyDeadzone(v, dz) ==
    LET s == Sign(v)
        a == Abs(v)
    IN  IF a <= dz THEN 0
        ELSE s * TruncDiv((a - dz) * Scale, Scale - dz)

\* null / undefined as a pointer id: this._touch.pointerId before and after a
\* session, e.pointerId of an event that has none.
NoPointerId == -1

\* getPointerId without the default: e.pointerId as it is.
getPointerIdRaw(e) == e.pointerId

\* function getPointerId(e) { return e.pointerId ?? 0; }
getPointerId(e) == IF e.pointerId = NoPointerId THEN 0 ELSE e.pointerId

\* function getPoint(e): a pointer event has clientX and clientY.
getPoint(e) == [x |-> e.clientX, y |-> e.clientY]

-----------------------------------------------------------------------------
(* State                                                                   *)

VARIABLES
    cfg,            \* constructor options: smooth, enableTouchUI; and the display:
                    \* coarse (the primary pointer is coarse), ontouchstart
    state,          \* this.state, flattened: [x, y, jump, sprint]
    kb,             \* this._kb: [x, y, jump, sprint, keys]
    gp,             \* this._gp: [x, y, jump, sprint]
    touch,          \* this._touch: [x, y, jump, sprint, active, originX, originY, pointerId]
    smoothed,       \* this._smoothed: [x, y]
    ui,             \* this._ui: "null" or "element"
    stick,          \* this._stick.style.transform: translate(dx, dy)
    dom,            \* the document: [ui, style], whether #touch-ui / #touch-ui-styles are in it
    winListeners,   \* event types the manager has a listener for on window
    hw,             \* what navigator.getGamepads() reported to the last update()
    axis,           \* the local `axis` of the last update(): the vector the combiner selected
    ret,            \* the snapshot the last update() / getState() returned
    updRet,         \* the values the last update() returned (history)
    op,             \* the last operation (history): [name, foreign, tracked, type, e,
                    \* target, capture, released]; for a key-up that took one key
                    \* of a direction out of the key set while the other was in
                    \* it, that key ("" otherwise); for a pointer event, its type, the event,
                    \* whether it came during a session from the tracked pointer or
                    \* from another, the button it was on ("jump", "sprint"), if
                    \* any, and what the browser's setPointerCapture /
                    \* releasePointerCapture did, if the handler called it
    nUpdates,       \* update() calls so far
    destroyCalls,   \* destroy() calls so far
    threw,          \* whether the last operation raised an error
    held,           \* the keys (by the e.key of their events) whose last event
                    \* was a keydown (history)
    tap,            \* a tap of a jump input (history): "pending" when Space or the
                    \* Jump button, pressed after an update() call, has been
                    \* released and no update() has run since; "passed" in the
                    \* state the next update() leaves; "none" otherwise
    twin            \* a second manager that differs in the smooth option only
                    \* and is given the same events and calls: [smooth, x, y],
                    \* its option and its this._smoothed (the rest of it equals
                    \* the first manager's)

vars == <<cfg, state, kb, gp, touch, smoothed, ui, stick, dom, winListeners, hw,
          axis, ret, updRet, op, nUpdates, destroyCalls, threw, held,
          tap, twin>>

\* The manager's own fields.
mgrVars == <<state, kb, gp, touch, smoothed, ui>>

\* The place of the event in the record of an operation that has none.
NoEvent == [pointerId |-> NoPointerId, clientX |-> 0, clientY |-> 0]

\* The record of an operation, for op.
Op(name) ==
    [name |-> name, foreign |-> FALSE, tracked |-> FALSE, type |-> name, e |-> NoEvent,
     target |-> "none", capture |-> "none", released |-> ""]

\* The record of a pointer event e of the given type, delivered while the
\* touch state is t: e is of the tracked pointer, or of a foreign one, if a
\* session is active.
PointerOp(name, t, type, e) ==
    [name |-> name,
     foreign |-> t.active /\ getPointerId(e) # t.pointerId,
     tracked |-> t.active /\ getPointerId(e) = t.pointerId,
     type |-> type, e |-> e, target |-> "none", capture |-> "none", released |-> ""]

\* Bounds of the model.
MaxUpdates == 2

MaxDestroyCalls == 2

\* The record of taps after an event: `released` says whether the event
\* released a jump input that was down.  The input was pressed after the
\* last update() if that call returned no jump; the record is kept between
\* two calls, after one call and while another can follow.
tapAfter(released) ==
    IF released /\ ~updRet.jump /\ nUpdates >= 1 /\ nUpdates < MaxUpdates THEN "pending"
    ELSE IF tap = "passed" THEN "none"
    ELSE tap

KeyListeners == {"keydown", "keyup"}

PointerListeners == {"pointermove", "pointerup", "pointercancel", "pointerleave"}

\* pointerup and pointercancel bubble to window; pointerleave does not.
Bubbles(type) == type # "pointerleave"

-----------------------------------------------------------------------------
(* Construction                                                            *)

\* const preferTouch = enableTouchUI ?? matchMedia('(pointer: coarse)').matches
\*                                     || 'ontouchstart' in window
\* read as the option's documentation has it ("If undefined, auto-enable"):
\* enableTouchUI ?? (coarse || ontouchstart).  coarse: the media query
\* (pointer: coarse) matches; ontouchstart: window has the property.
preferTouch(enableTouchUI, coarse, ontouchstart) ==
    IF enableTouchUI = "unset" THEN (coarse \/ ontouchstart) ELSE enableTouchUI = "true"

\* _injectStyles(): adds the style element unless the page has one.
injectStyles(page) == [page EXCEPT !.style = TRUE]

\* _setupTouchUI(enableTouchUI) on a page: the fields and global resources it
\* leaves, [ui, dom, win] (win: the window listeners it adds).
setupTouchUI(enableTouchUI, coarse, ontouchstart, page) ==
    IF ~preferTouch(enableTouchUI, coarse, ontouchstart)
    THEN [ui |-> "null", dom |-> page, win |-> {}]
    ELSE [ui |-> "element",
          dom |-> injectStyles([page EXCEPT !.ui = TRUE]),
          win |-> PointerListeners]

\* _bindKeyboard(): the window listeners it adds.
bindKeyboard == KeyListeners

EmptyPage == [ui |-> FALSE, style |-> FALSE]

NoSnapshot ==
    [valid |-> FALSE, objRef |-> "fresh", axisRef |-> "fresh",
     x |-> 0, y |-> 0, jump |-> FALSE, sprint |-> FALSE]

NoGamepad ==
    [api |-> TRUE, connected |-> FALSE, axes |-> <<>>, nButtons |-> 0, buttons |-> {}]

\* The options with the defaults of the constructor (opts.x ?? default); an
\* option a caller gives replaces its field.
DefaultOpts ==
    [deadzone |-> DefaultDeadzone, smooth |-> DefaultSmooth,
     joystickRadius |-> DefaultJoystickRadius, enableTouchUI |-> "unset"]

\* constructor(opts), on an empty page of a display, beside the construction
\* of a twin with the smooth option twinSmooth.
ConstructPair(opts, twinSmooth, coarse, ontouchstart) ==
    LET t == setupTouchUI(opts.enableTouchUI, coarse, ontouchstart, EmptyPage)
    IN  /\ cfg = [smooth |-> opts.smooth, enableTouchUI |-> opts.enableTouchUI,
                  coarse |-> coarse, ontouchstart |-> ontouchstart,
                  deadzone |-> opts.deadzone, joystickRadius |-> opts.joystickRadius]
        /\ state = [x |-> 0, y |-> 0, jump |-> FALSE, sprint |-> FALSE]
        /\ kb = [x |-> 0, y |-> 0, jump |-> FALSE, sprint |-> FALSE, keys |-> {}]
        /\ gp = [x |-> 0, y |-> 0, jump |-> FALSE, sprint |-> FALSE]
        /\ touch = [x |-> 0, y |-> 0, jump |-> FALSE, sprint |-> FALSE,
                    active |-> FALSE, originX |-> 0, originY |-> 0,
                    pointerId |-> NoPointerId]
        /\ smoothed = [x |-> 0, y |-> 0]
        /\ ui = t.ui
        /\ stick = [dx |-> 0, dy |-> 0]
        /\ dom = t.dom
        /\ winListeners = bindKeyboard \cup t.win
        /\ hw = NoGamepad
        /\ axis = [x |-> 0, y |-> 0]
        /\ ret = NoSnapshot
        /\ updRet = [x |-> 0, y |-> 0, jump |-> FALSE, sprint |-> FALSE]
        /\ op = Op("construct")
        /\ nUpdates = 0
        /\ destroyCalls = 0
        /\ threw = FALSE
        /\ held = {}
        /\ tap = "none"
        /\ twin = [smooth |-> twinSmooth, x |-> 0, y |-> 0]

\* constructor(opts) of one manager (the twin is a copy).
Construct(opts, coarse, ontouchstart) ==
    ConstructPair(opts, opts.smooth, coarse, ontouchstart)

-----------------------------------------------------------------------------
(* Keyboard source                                                         *)

\* e.key.toLowerCase(), on the key values the model delivers.
toLowerCase(key) ==
    CASE key = "W" -> "w"
      [] key = "A" -> "a"
      [] key = "S" -> "s"
      [] key = "D" -> "d"
      [] key = "Shift" -> "shift"
      [] key = "ArrowUp" -> "arrowup"
      [] key = "ArrowDown" -> "arrowdown"
      [] key = "ArrowLeft" -> "arrowleft"
      [] key = "ArrowRight" -> "arrowright"
      [] OTHER -> key

\* The two keys of each direction, as _recalcKeyboardAxes() names them.
DirectionAliases ==
    {<<"d", "arrowright">>, <<"a", "arrowleft">>, <<"w", "arrowup">>, <<"s", "arrowdown">>}

\* For the record of a key-up of `key` on the key set ks: the key it takes
\* out of the set, if the other key of its direction is in the set too.
releasedAlias(ks, key) ==
    LET k == toLowerCase(key)
    IN  IF \E p \in DirectionAliases : \E i \in {1, 2} :
               p[i] = k /\ k \in ks /\ p[3 - i] \in ks
        THEN k ELSE ""

\* _recalcKeyboardAxes() without normalize2: the raw sum of the directions.
recalcKeyboardAxesBox(ks) ==
    [x |-> ((IF "d" \in ks \/ "arrowright" \in ks THEN 1 ELSE 0)
            + (IF "a" \in ks \/ "arrowleft" \in ks THEN -1 ELSE 0)) * Scale,
     y |-> ((IF "w" \in ks \/ "arrowup" \in ks THEN 1 ELSE 0)
            + (IF "s" \in ks \/ "arrowdown" \in ks THEN -1 ELSE 0)) * Scale]

\* _recalcKeyboardAxes(): the keyboard vector of a held-key set.
recalcKeyboardAxes(ks) ==
    LET x == (IF "d" \in ks \/ "arrowright" \in ks THEN 1 ELSE 0)
             + (IF "a" \in ks \/ "arrowleft" \in ks THEN -1 ELSE 0)
        y == (IF "w" \in ks \/ "arrowup" \in ks THEN 1 ELSE 0)
             + (IF "s" \in ks \/ "arrowdown" \in ks THEN -1 ELSE 0)
    IN  normalize2(x * Scale, y * Scale)

\* this._onKeyDown(e): the new this._kb.
onKeyDown(k0, key) ==
    LET k == toLowerCase(key)
        ks == k0.keys \cup {k}
        n == recalcKeyboardAxes(ks)
    IN  [x |-> n.x, y |-> n.y,
         jump |-> IF k = " " THEN TRUE ELSE k0.jump,
         sprint |-> IF k = "shift" THEN TRUE ELSE k0.sprint,
         keys |-> ks]

\* this._onKeyUp(e) that keeps the jump latch: a press stays recorded after
\* the key is released.
onKeyUpKeepsJump(k0, key) ==
    LET k == toLowerCase(key)
        ks == k0.keys \ {k}
        n == recalcKeyboardAxes(ks)
    IN  [x |-> n.x, y |-> n.y,
         jump |-> k0.jump,
         sprint |-> IF k = "shift" THEN FALSE ELSE k0.sprint,
         keys |-> ks]

\* this._onKeyUp(e) without _recalcKeyboardAxes(): the vector stays as the
\* earlier events left it.
onKeyUpNoRecalc(k0, key) ==
    LET k == toLowerCase(key)
    IN  [x |-> k0.x, y |-> k0.y,
         jump |-> IF k = " " THEN FALSE ELSE k0.jump,
         sprint |-> IF k = "shift" THEN FALSE ELSE k0.sprint,
         keys |-> k0.keys \ {k}]

\* this._onKeyUp(e) that clears both latches, whatever the key.
onKeyUpClearsLatches(k0, key) ==
    LET ks == k0.keys \ {toLowerCase(key)}
        n == recalcKeyboardAxes(ks)
    IN  [x |-> n.x, y |-> n.y, jump |-> FALSE, sprint |-> FALSE, keys |-> ks]

\* this._onKeyUp(e): the new this._kb.
onKeyUp(k0, key) ==
    LET k == toLowerCase(key)
        ks == k0.keys \ {k}
        n == recalcKeyboardAxes(ks)
    IN  [x |-> n.x, y |-> n.y,
         jump |-> IF k = " " THEN FALSE ELSE k0.jump,
         sprint |-> IF k = "shift" THEN FALSE ELSE k0.sprint,
         keys |-> ks]

\* A keydown event reaches window: the listener runs if it is still bound.
KeyDown(key) ==
    /\ kb' = IF "keydown" \in winListeners THEN onKeyDown(kb, key) ELSE kb
    /\ held' = held \cup {key}
    /\ op' = Op("keydown")
    /\ threw' = FALSE
    /\ tap' = tapAfter(FALSE)
    /\ UNCHANGED <<cfg, twin, state, gp, touch, smoothed, ui, stick, dom, winListeners, hw,
                   axis, ret, updRet, nUpdates, destroyCalls>>

\* A keyup event reaches window.
KeyUp(key) ==
    /\ kb' = IF "keyup" \in winListeners THEN onKeyUp(kb, key) ELSE kb
    /\ held' = held \ {key}
    /\ op' = [Op("keyup") EXCEPT !.released = releasedAlias(kb.keys, key)]
    /\ threw' = FALSE
    /\ tap' = tapAfter(toLowerCase(key) = " " /\ kb.jump)
    /\ UNCHANGED <<cfg, twin, state, gp, touch, smoothed, ui, stick, dom, winListeners, hw,
                   axis, ret, updRet, nUpdates, destroyCalls>>

-----------------------------------------------------------------------------
(* Gamepad source                                                          *)

\* gp.axes[i] ?? 0 (i counted from 0)
rawAxis(pad, i) == IF i + 1 <= Len(pad.axes) THEN pad.axes[i + 1] ELSE 0

\* btn reading the entry after the one asked for.
btnNextIndex(pad, i) == i + 1 < pad.nButtons /\ (i + 1) \in pad.buttons

\* const btn = i => !!gp.buttons?.[i]?.pressed
\* An index past the array gives undefined, and !!undefined is false.
btn(pad, i) == i < pad.nButtons /\ i \in pad.buttons

\* _pollGamepad() returning at once, this._gp as it was, when there is no
\* device at the index.
pollGamepadStale(pad, deadzone) ==
    IF ~pad.api THEN [x |-> 0, y |-> 0, jump |-> FALSE, sprint |-> FALSE]
    ELSE IF ~pad.connected THEN gp
    ELSE LET v == normalize2(applyDeadzone(rawAxis(pad, 0), deadzone),
                             -applyDeadzone(rawAxis(pad, 1), deadzone))
         IN  [x |-> v.x, y |-> v.y,
              jump |-> btn(pad, 0) \/ btn(pad, 1),
              sprint |-> btn(pad, 10) \/ btn(pad, 11) \/ btn(pad, 4) \/ btn(pad, 5)]

\* _pollGamepad() without the inversion of the vertical axis.
pollGamepadNoInvert(pad, deadzone) ==
    IF ~pad.api THEN [x |-> 0, y |-> 0, jump |-> FALSE, sprint |-> FALSE]
    ELSE IF ~pad.connected THEN [x |-> 0, y |-> 0, jump |-> FALSE, sprint |-> FALSE]
    ELSE LET v == normalize2(applyDeadzone(rawAxis(pad, 0), deadzone),
                             applyDeadzone(rawAxis(pad, 1), deadzone))
         IN  [x |-> v.x, y |-> v.y,
              jump |-> btn(pad, 0) \/ btn(pad, 1),
              sprint |-> btn(pad, 10) \/ btn(pad, 11) \/ btn(pad, 4) \/ btn(pad, 5)]

\* _pollGamepad(): the new this._gp, from the hardware snapshot.
pollGamepad(pad, deadzone) ==
    IF ~pad.api THEN [x |-> 0, y |-> 0, jump |-> FALSE, sprint |-> FALSE]
    ELSE IF ~pad.connected THEN [x |-> 0, y |-> 0, jump |-> FALSE, sprint |-> FALSE]
    ELSE LET dzX == applyDeadzone(rawAxis(pad, 0), deadzone)
             dzY == applyDeadzone(rawAxis(pad, 1), deadzone)
             v == normalize2(dzX, -dzY)
         IN  [x |-> v.x, y |-> v.y,
              jump |-> btn(pad, 0) \/ btn(pad, 1),
              sprint |-> btn(pad, 10) \/ btn(pad, 11) \/ btn(pad, 4) \/ btn(pad, 5)]

-----------------------------------------------------------------------------
(* Touch source                                                            *)

\* The drag arithmetic without the cap: dist = hypot(dx, dy).
joyFractionUncapped(dx, dy, radius) ==
    LET r == radius * PxScale
        h == Hypot(dx, dy)
        cos == IF h = 0 THEN Scale ELSE TruncDiv(dx * Scale, h)
        sin == IF h = 0 THEN 0 ELSE TruncDiv(dy * Scale, h)
        frac == TruncDiv(h * Scale, r)
    IN  [nx |-> TruncDiv(cos * frac, Scale), ny |-> TruncDiv(sin * frac, Scale)]

\* The drag arithmetic of onJoyMove for a displacement (dx, dy) from the
\* origin: angle = atan2(dy, dx); dist = min(hypot(dx, dy), radius);
\* nx = cos(angle) * (dist / radius); ny = sin(angle) * (dist / radius).
\* cos(angle) is dx / hypot and sin(angle) is dy / hypot; atan2(0, 0) is 0.
joyFraction(dx, dy, radius) ==
    LET r == radius * PxScale
        h == Hypot(dx, dy)
        cos == IF h = 0 THEN Scale ELSE TruncDiv(dx * Scale, h)
        sin == IF h = 0 THEN 0 ELSE TruncDiv(dy * Scale, h)
        frac == TruncDiv(Min(h, r) * Scale, r)
    IN  [nx |-> TruncDiv(cos * frac, Scale), ny |-> TruncDiv(sin * frac, Scale)]

\* ax = applyDeadzone(nx, dz); ay = applyDeadzone(-ny, dz); normalize2(ax, ay)
joyVector(n, deadzone) ==
    normalize2(applyDeadzone(n.nx, deadzone), applyDeadzone(-n.ny, deadzone))

\* onJoyDown(e) that does not record the press point.
onJoyDownKeepsOrigin(t, e) ==
    IF t.active THEN t
    ELSE [t EXCEPT !.active = TRUE, !.pointerId = getPointerId(e)]

\* onJoyDown(e): the new this._touch.
onJoyDown(t, e) ==
    IF t.active THEN t
    ELSE LET p == getPoint(e)
         IN  [t EXCEPT !.active = TRUE, !.pointerId = getPointerId(e),
                       !.originX = p.x, !.originY = p.y]

\* The early return without the comparison of pointer ids.
notTrackedAnyPointer(t, e) == ~t.active

\* Whether onJoyMove / onJoyUp return at once:
\* if (!this._touch.active || getPointerId(e) !== this._touch.pointerId) return;
notTracked(t, e) == ~t.active \/ getPointerId(e) # t.pointerId

\* onJoyMove(e): the new this._touch.
onJoyMove(t, e, deadzone, radius) ==
    IF notTracked(t, e) THEN t
    ELSE LET p == getPoint(e)
             n == joyFraction(p.x - t.originX, p.y - t.originY, radius)
             v == joyVector(n, deadzone)
         IN  [t EXCEPT !.x = v.x, !.y = v.y]

\* onJoyUp(e) that ends the session and leaves the vector as it is.
onJoyUpKeepsVector(t, e) ==
    IF ~t.active \/ getPointerId(e) # t.pointerId THEN t
    ELSE [t EXCEPT !.active = FALSE, !.pointerId = NoPointerId]

\* onJoyUp(e): the new this._touch.
onJoyUp(t, e) ==
    IF notTracked(t, e) THEN t
    ELSE [t EXCEPT !.active = FALSE, !.pointerId = NoPointerId, !.x = 0, !.y = 0]

\* this._updateStickVisual(nx * radius, ny * radius) of onJoyMove.
stickOnMove(st, t, e, radius) ==
    IF notTracked(t, e) THEN st
    ELSE LET p == getPoint(e)
             n == joyFraction(p.x - t.originX, p.y - t.originY, radius)
         IN  [dx |-> TruncDiv(n.nx * radius * PxScale, Scale),
              dy |-> TruncDiv(n.ny * radius * PxScale, Scale)]

\* The capture calls without their try / catch: a throw of the browser's
\* method leaves the call.
pointerCaptureUnsafe(outcome) == outcome = "throws"

\* setPointerCaptureSafe / releasePointerCaptureSafe: try { ... } catch {}.
\* Whether an error leaves the call, for each outcome of the browser's method.
pointerCaptureSafe(outcome) == FALSE

\* The injected rule "@media (pointer: fine) { #touch-ui { display: none; } }"
\* applies: the style element is in the document and the primary pointer is
\* fine (not coarse).
hiddenByStyle == dom.style /\ ~cfg.coarse

\* Whether the joystick and the buttons can receive pointer input: they are
\* children of the #touch-ui container, which must be in the document and
\* displayed.
elementsAttached == dom.ui /\ ~hiddenByStyle

\* pointerdown on the joystick element.
JoyPointerDown(e, capture) ==
    /\ elementsAttached
    /\ touch' = onJoyDown(touch, e)
    /\ stick' = IF touch.active THEN stick ELSE [dx |-> 0, dy |-> 0]
    /\ threw' = (IF touch.active THEN FALSE ELSE pointerCaptureSafe(capture))
    /\ op' = [PointerOp("joydown", touch, "pointerdown", e)
                 EXCEPT !.capture = IF touch.active THEN "none" ELSE capture]
    /\ tap' = tapAfter(FALSE)
    /\ UNCHANGED <<cfg, held, twin, state, kb, gp, smoothed, ui, dom, winListeners, hw,
                   axis, ret, updRet, nUpdates, destroyCalls>>

\* A pointermove handler that also publishes the new touch vector at once,
\* writing this.state.axis outside update().
PointerMovePublishing(e) ==
    /\ touch' = IF "pointermove" \in winListeners
                THEN onJoyMove(touch, e, cfg.deadzone, cfg.joystickRadius) ELSE touch
    /\ stick' = IF "pointermove" \in winListeners
                THEN stickOnMove(stick, touch, e, cfg.joystickRadius) ELSE stick
    /\ state' = [state EXCEPT !.x = touch'.x, !.y = touch'.y]
    /\ threw' = FALSE
    /\ op' = PointerOp("pointermove", touch, "pointermove", e)
    /\ tap' = tapAfter(FALSE)
    /\ UNCHANGED <<cfg, held, twin, kb, gp, smoothed, ui, dom, winListeners, hw,
                   axis, ret, updRet, nUpdates, destroyCalls>>

\* pointermove anywhere: it bubbles to window.
PointerMove(e) ==
    /\ touch' = IF "pointermove" \in winListeners
                THEN onJoyMove(touch, e, cfg.deadzone, cfg.joystickRadius) ELSE touch
    /\ stick' = IF "pointermove" \in winListeners
                THEN stickOnMove(stick, touch, e, cfg.joystickRadius) ELSE stick
    /\ threw' = FALSE
    /\ op' = PointerOp("pointermove", touch, "pointermove", e)
    /\ tap' = tapAfter(FALSE)
    /\ UNCHANGED <<cfg, held, twin, state, kb, gp, smoothed, ui, dom, winListeners, hw,
                   axis, ret, updRet, nUpdates, destroyCalls>>

\* The window listener of pointerup / pointercancel / pointerleave (onJoyUp),
\* applied to a touch state.
windowEnd(t, type, e) == IF type \in winListeners THEN onJoyUp(t, e) ELSE t

\* pointerup, pointercancel or pointerleave reaching window, from anywhere but
\* the two buttons.
PointerEnd(type, e, capture) ==
    /\ touch' = windowEnd(touch, type, e)
    /\ stick' = IF touch'.active = touch.active THEN stick ELSE [dx |-> 0, dy |-> 0]
    /\ threw' = (IF touch'.active = touch.active THEN FALSE ELSE pointerCaptureSafe(capture))
    /\ op' = [PointerOp("pointerend", touch, type, e)
                 EXCEPT !.capture = IF touch'.active = touch.active THEN "none" ELSE capture]
    /\ tap' = tapAfter(FALSE)
    /\ UNCHANGED <<cfg, held, twin, state, kb, gp, smoothed, ui, dom, winListeners, hw,
                   axis, ret, updRet, nUpdates, destroyCalls>>

\* onJumpDown / onSprintDown: this._touch[which] = true
onButtonDown(t, which) == [t EXCEPT ![which] = TRUE]

\* onJumpUp / onSprintUp releasing both buttons.
onButtonUpBoth(t, which) == [t EXCEPT !.jump = FALSE, !.sprint = FALSE]

\* onJumpUp / onSprintUp: this._touch[which] = false
onButtonUp(t, which) == [t EXCEPT ![which] = FALSE]

\* pointerdown on the Jump ("jump") or Sprint ("sprint") button.
ButtonPointerDown(which, e) ==
    /\ elementsAttached
    /\ touch' = onButtonDown(touch, which)
    /\ threw' = FALSE
    /\ op' = [PointerOp("buttondown", touch, "pointerdown", e) EXCEPT !.target = which]
    /\ tap' = tapAfter(FALSE)
    /\ UNCHANGED <<cfg, held, twin, state, kb, gp, smoothed, ui, stick, dom, winListeners, hw,
                   axis, ret, updRet, nUpdates, destroyCalls>>

\* pointerup / pointercancel / pointerleave on a button: the button's listener
\* runs, then, if the event bubbles, the window's.
ButtonPointerEnd(which, type, e, capture) ==
    /\ elementsAttached
    /\ LET t1 == onButtonUp(touch, which)
           t2 == IF Bubbles(type) THEN windowEnd(t1, type, e) ELSE t1
       IN  /\ touch' = t2
           /\ stick' = IF t2.active = touch.active THEN stick ELSE [dx |-> 0, dy |-> 0]
           /\ threw' = (IF t2.active = touch.active THEN FALSE
                        ELSE pointerCaptureSafe(capture))
    /\ op' = [PointerOp("buttonup", touch, type, e)
                 EXCEPT !.target = which,
                        !.capture = IF touch'.active = touch.active THEN "none" ELSE capture]
    /\ tap' = tapAfter(which = "jump" /\ touch.jump)
    /\ UNCHANGED <<cfg, held, twin, state, kb, gp, smoothed, ui, dom, winListeners, hw,
                   axis, ret, updRet, nUpdates, destroyCalls>>

-----------------------------------------------------------------------------
(* Combiner and smoother: update(), getState()                             *)

\* const candidates = [touch, gamepad, keyboard] vectors, in this order.
candidates(t, g, k) ==
    <<[x |-> t.x, y |-> t.y], [x |-> g.x, y |-> g.y], [x |-> k.x, y |-> k.y]>>

\* v => Math.abs(v.x) > 0.001 || Math.abs(v.y) > 0.001
isActive(v) == Abs(v.x) > Epsilon \/ Abs(v.y) > Epsilon

\* The last active candidate instead of the first (the priority reversed).
findPreferredLast(c) ==
    IF \E i \in 1..Len(c) : isActive(c[i])
    THEN CHOOSE i \in 1..Len(c) :
             isActive(c[i]) /\ \A j \in (i + 1)..Len(c) : ~isActive(c[j])
    ELSE 0

\* candidates.find(isActive): the index of the first active one, 0 if none.
findPreferred(c) ==
    IF \E i \in 1..Len(c) : isActive(c[i])
    THEN CHOOSE i \in 1..Len(c) : isActive(c[i]) /\ \A j \in 1..(i - 1) : ~isActive(c[j])
    ELSE 0

\* The fallback left out: the zero vector when no candidate is active.
selectAxisNoFallback(c) ==
    LET i == findPreferred(c)
    IN  IF i # 0 THEN c[i] ELSE [x |-> 0, y |-> 0]

\* A blend: the clamped sum of the candidates, whether one is active or not.
selectAxisBlend(c) ==
    [x |-> clamp(c[1].x + c[2].x + c[3].x, -Scale, Scale),
     y |-> clamp(c[1].y + c[2].y + c[3].y, -Scale, Scale)]

\* The local `axis` of update(): the preferred candidate, else the clamped sum.
selectAxis(c) ==
    LET i == findPreferred(c)
    IN  IF i # 0 THEN c[i]
        ELSE [x |-> clamp(c[1].x + c[2].x + c[3].x, -Scale, Scale),
              y |-> clamp(c[1].y + c[2].y + c[3].y, -Scale, Scale)]

\* 1 - Math.pow(1 - this.smooth, 60 / 60): the exponent is 1.
blendFactor(smooth) == Scale - (Scale - smooth)

\* this._smoothed after update().
smoothAxis(sm, target, smooth) ==
    [x |-> lerp(sm.x, target.x, blendFactor(smooth)),
     y |-> lerp(sm.y, target.y, blendFactor(smooth))]

\* The OR without the gamepad's flag.
combineButtonNoGamepad(t, k, g, which) == t[which] \/ k[which]

\* const jump = this._touch.jump || this._kb.jump || this._gp.jump (and sprint)
combineButton(t, k, g, which) == t[which] \/ k[which] \/ g[which]

\* A shallow copy: a new object whose axis is this.state.axis itself.
getStateShallow(st) ==
    [valid |-> TRUE, objRef |-> "fresh", axisRef |-> "state",
     x |-> st.x, y |-> st.y, jump |-> st.jump, sprint |-> st.sprint]

\* getState(): a new object with a new nested axis object, holding the values
\* of this.state.  objRef / axisRef say which object the host was handed:
\* "fresh" (a copy) or "state" (this.state / this.state.axis itself).
getState(st) ==
    [valid |-> TRUE, objRef |-> "fresh", axisRef |-> "fresh",
     x |-> st.x, y |-> st.y, jump |-> st.jump, sprint |-> st.sprint]

\* An update() that consumes what it reads: it clears the keyboard latches
\* and the touch button latches after combining them.
UpdateConsuming(pad) ==
    /\ nUpdates < MaxUpdates
    /\ hw' = pad
    /\ \E g \in {pollGamepad(pad, cfg.deadzone)} :
       \E a \in {selectAxis(candidates(touch, g, kb))} :
       \E sm \in {smoothAxis(smoothed, a, cfg.smooth)} :
       \E tw \in {smoothAxis(twin, a, twin.smooth)} :
       \E st \in {[x |-> sm.x, y |-> sm.y,
                   jump |-> combineButton(touch, kb, g, "jump"),
                   sprint |-> combineButton(touch, kb, g, "sprint")]} :
           /\ gp' = g
           /\ axis' = a
           /\ smoothed' = sm
           /\ state' = st
           /\ ret' = getState(st)
           /\ updRet' = st
           /\ twin' = [smooth |-> twin.smooth, x |-> tw.x, y |-> tw.y]
    /\ kb' = [kb EXCEPT !.jump = FALSE, !.sprint = FALSE]
    /\ touch' = [touch EXCEPT !.jump = FALSE, !.sprint = FALSE]
    /\ nUpdates' = nUpdates + 1
    /\ op' = Op("update")
    /\ threw' = FALSE
    /\ tap' = (IF tap = "pending" THEN "passed" ELSE "none")
    /\ UNCHANGED <<cfg, held, ui, stick, dom, winListeners, destroyCalls>>

\* update(), with the gamepad hardware reporting `pad` at the moment of the call.
Update(pad) ==
    /\ nUpdates < MaxUpdates
    /\ hw' = pad
    /\ \E g \in {pollGamepad(pad, cfg.deadzone)} :
       \E a \in {selectAxis(candidates(touch, g, kb))} :
       \E sm \in {smoothAxis(smoothed, a, cfg.smooth)} :
       \E tw \in {smoothAxis(twin, a, twin.smooth)} :
       \E st \in {[x |-> sm.x, y |-> sm.y,
                   jump |-> combineButton(touch, kb, g, "jump"),
                   sprint |-> combineButton(touch, kb, g, "sprint")]} :
           /\ gp' = g
           /\ axis' = a
           /\ smoothed' = sm
           /\ state' = st
           /\ ret' = getState(st)
           /\ updRet' = st
           /\ twin' = [smooth |-> twin.smooth, x |-> tw.x, y |-> tw.y]
    /\ nUpdates' = nUpdates + 1
    /\ op' = Op("update")
    /\ threw' = FALSE
    /\ tap' = (IF tap = "pending" THEN "passed" ELSE "none")
    /\ UNCHANGED <<cfg, held, kb, touch, ui, stick, dom, winListeners, destroyCalls>>

\* A getState() that advances the smoothing toward the last selected vector.
GetStateAdvancing ==
    /\ smoothed' = smoothAxis(smoothed, axis, cfg.smooth)
    /\ state' = [state EXCEPT !.x = smoothed'.x, !.y = smoothed'.y]
    /\ ret' = getState(state')
    /\ op' = Op("getState")
    /\ threw' = FALSE
    /\ tap' = tapAfter(FALSE)
    /\ UNCHANGED <<cfg, held, twin, kb, gp, touch, ui, stick, dom, winListeners, hw,
                   axis, updRet, nUpdates, destroyCalls>>

\* getState(), called by the host.
GetState ==
    /\ ret' = getState(state)
    /\ op' = Op("getState")
    /\ threw' = FALSE
    /\ tap' = tapAfter(FALSE)
    /\ UNCHANGED <<cfg, held, twin, state, kb, gp, touch, smoothed, ui, stick, dom, winListeners, hw,
                   axis, updRet, nUpdates, destroyCalls>>

\* A value no axis holds, written by a host that mutates a snapshot.
MutatedValue == 2 * Scale

\* The host writes snapshot.axis.x: the write lands in this.state.axis too when
\* the snapshot's axis object is this.state.axis.
HostMutateAxis ==
    /\ ret.valid
    /\ ret.x # MutatedValue
    /\ ret' = [ret EXCEPT !.x = MutatedValue]
    /\ state' = IF ret.axisRef = "state" THEN [state EXCEPT !.x = MutatedValue] ELSE state
    /\ op' = Op("mutate")
    /\ threw' = FALSE
    /\ tap' = tapAfter(FALSE)
    /\ UNCHANGED <<cfg, held, twin, kb, gp, touch, smoothed, ui, stick, dom, winListeners, hw,
                   axis, updRet, nUpdates, destroyCalls>>

\* The host writes snapshot.jump.
HostMutateJump ==
    /\ ret.valid
    /\ ret' = [ret EXCEPT !.jump = ~ret.jump]
    /\ state' = IF ret.objRef = "state" THEN [state EXCEPT !.jump = ~ret.jump] ELSE state
    /\ op' = Op("mutate")
    /\ threw' = FALSE
    /\ tap' = tapAfter(FALSE)
    /\ UNCHANGED <<cfg, held, twin, kb, gp, touch, smoothed, ui, stick, dom, winListeners, hw,
                   axis, updRet, nUpdates, destroyCalls>>

-----------------------------------------------------------------------------
(* Teardown: destroy()                                                     *)

\* window.removeEventListener('keydown' / 'keyup', ...): the listeners left.
removeKeyListeners(w) == w \ KeyListeners

\* _detachTouchUI() without its guard: this._ui.remove() on null throws.
detachTouchUIUnguarded(u, d) ==
    IF u = "null" THEN [ui |-> u, dom |-> d, threw |-> TRUE]
    ELSE [ui |-> "null", dom |-> [d EXCEPT !.ui = FALSE], threw |-> FALSE]

\* _detachTouchUI(): [ui, dom, threw] after it.
detachTouchUI(u, d) ==
    IF u = "null" THEN [ui |-> u, dom |-> d, threw |-> FALSE]
    ELSE [ui |-> "null", dom |-> [d EXCEPT !.ui = FALSE], threw |-> FALSE]

\* A destroy() that also resets the smoothed accumulator and the public axis.
DestroyResetting ==
    /\ destroyCalls < MaxDestroyCalls
    /\ winListeners' = removeKeyListeners(winListeners)
    /\ LET d == detachTouchUI(ui, dom)
       IN  /\ ui' = d.ui
           /\ dom' = d.dom
           /\ threw' = d.threw
    /\ smoothed' = [x |-> 0, y |-> 0]
    /\ state' = [state EXCEPT !.x = 0, !.y = 0]
    /\ destroyCalls' = destroyCalls + 1
    /\ op' = Op("destroy")
    /\ tap' = tapAfter(FALSE)
    /\ UNCHANGED <<cfg, held, twin, kb, gp, touch, stick, hw,
                   axis, ret, updRet, nUpdates>>

\* destroy()
Destroy ==
    /\ destroyCalls < MaxDestroyCalls
    /\ winListeners' = removeKeyListeners(winListeners)
    /\ LET d == detachTouchUI(ui, dom)
       IN  /\ ui' = d.ui
           /\ dom' = d.dom
           /\ threw' = d.threw
    /\ destroyCalls' = destroyCalls + 1
    /\ op' = Op("destroy")
    /\ tap' = tapAfter(FALSE)
    /\ UNCHANGED <<cfg, held, twin, state, kb, gp, touch, smoothed, stick, hw,
                   axis, ret, updRet, nUpdates>>

-----------------------------------------------------------------------------
(* Inputs of the environment                                               *)

EnableValues == {"unset", "true", "false"}

\* A gamepad snapshot: api, whether navigator.getGamepads exists; connected,
\* whether there is a device at gamepadIndex; axes; nButtons, the length of
\* its buttons array (0 also for a device without the array); buttons, the
\* indices of the pressed ones.  The standard mapping has 17 buttons.
StandardButtons == 16 + 1

\* navigator.getGamepads is undefined.
NoGamepadApi ==
    [api |-> FALSE, connected |-> FALSE, axes |-> <<>>, nButtons |-> 0, buttons |-> {}]

\* Stick half right and half up, button 0 (A) pressed.
PadA == [api |-> TRUE, connected |-> TRUE, axes |-> <<Scale \div 2, -(Scale \div 2)>>,
         nButtons |-> StandardButtons, buttons |-> {0}]

\* Stick just past the deadzone (a vector under the activity threshold),
\* button 4 (LB) pressed.
PadB == [api |-> TRUE, connected |-> TRUE,
         axes |-> <<DefaultDeadzone + Epsilon \div 2, 0>>,
         nButtons |-> StandardButtons, buttons |-> {4}]

\* Pointer positions, in pixels * PxScale.
Px(x, y) == [x |-> x * PxScale, y |-> y * PxScale]

\* Where the joystick is pressed.
PressA == Px(100, 100)

PressB == Px(120, 100)

\* Where a pointer moves to: a radius right of PressA; 9.05 px right and up of
\* it (just past the deadzone on both axes); and 50 px right and up of it.
MoveFar == Px(160, 100)

MoveNear == [x |-> 10905, y |-> 9095]

MoveDiag == Px(150, 50)

\* Where the buttons are.
ButtonPoint == Px(300, 300)

Event(id, p) == [pointerId |-> id, clientX |-> p.x, clientY |-> p.y]

EndTypes == {"pointerup", "pointercancel", "pointerleave"}

CaptureOutcomes == {"ok", "throws"}

-----------------------------------------------------------------------------
(* Spec: the manager's life (construction with and without the touch UI,   *)
(* the joystick session with two pointers, teardown), with one movement    *)
(* key and the Jump button.                                                *)

\* The option and the display <<enableTouchUI, coarse, ontouchstart>>: unset
\* on a coarse display, on a fine display without touch events and on a fine
\* display with them (a touch screen beside a mouse), and the option
\* overriding the display both ways.
Configurations ==
    {<<"unset", TRUE, TRUE>>, <<"unset", FALSE, FALSE>>, <<"unset", FALSE, TRUE>>,
     <<"true", FALSE, FALSE>>, <<"false", TRUE, TRUE>>}

Init ==
    \E c \in Configurations : Construct([DefaultOpts EXCEPT !.smooth = Scale, !.enableTouchUI = c[1]], c[2], c[3])

Next ==
    \/ KeyDown("d")
    \/ KeyUp("d")
    \/ \E id \in {1, 2}, p \in {PressA, PressB}, c \in CaptureOutcomes :
           JoyPointerDown(Event(id, p), c)
    \/ \E id \in {1, 2}, p \in {MoveFar, MoveNear} : PointerMove(Event(id, p))
    \/ \E type \in EndTypes, id \in {1, 2}, c \in CaptureOutcomes :
           PointerEnd(type, Event(id, PressA), c)
    \/ \E id \in {1, 2} : ButtonPointerDown("jump", Event(id, ButtonPoint))
    \/ \E type \in EndTypes, id \in {1, 2} :
           ButtonPointerEnd("jump", type, Event(id, ButtonPoint), "ok")
    \/ Update(NoGamepad)
    \/ GetState
    \/ Destroy

Spec == Init /\ [][Next]_vars

-----------------------------------------------------------------------------
(* SpecCombine: the combiner of update() over the three sources: one       *)
(* pointer on the joystick and the two buttons, the keys d, Space and      *)
(* Shift, and three gamepad snapshots.                                     *)

InitCombine == Construct([DefaultOpts EXCEPT !.smooth = Scale], TRUE, TRUE)

NextCombine ==
    \/ \E key \in {"d", " ", "Shift"} : KeyDown(key)
    \/ \E key \in {"d", " ", "Shift"} : KeyUp(key)
    \/ JoyPointerDown(Event(1, PressA), "ok")
    \/ \E p \in {MoveDiag, MoveNear} : PointerMove(Event(1, p))
    \/ PointerEnd("pointerup", Event(1, PressA), "ok")
    \/ \E b \in {"jump", "sprint"} : ButtonPointerDown(b, Event(2, ButtonPoint))
    \/ \E b \in {"jump", "sprint"} : ButtonPointerEnd(b, "pointerup", Event(2, ButtonPoint), "ok")
    \/ \E pad \in {NoGamepad, PadA, PadB} : Update(pad)

SpecCombine == InitCombine /\ [][NextCombine]_vars

-----------------------------------------------------------------------------
(* SpecSmooth: the smoother of update() with the default smoothing and     *)
(* with none, over diagonal and axis-aligned targets of the three sources. *)

InitSmooth ==
    \E s \in {DefaultSmooth, Scale} : Construct([DefaultOpts EXCEPT !.smooth = s], TRUE, TRUE)

\* Stick fully left and fully down.
PadCorner == [api |-> TRUE, connected |-> TRUE, axes |-> <<-Scale, Scale>>,
              nButtons |-> StandardButtons, buttons |-> {}]

NextSmooth ==
    \/ \E key \in {"w", "d", "a"} : KeyDown(key)
    \/ \E key \in {"w", "d", "a"} : KeyUp(key)
    \/ JoyPointerDown(Event(1, PressA), "ok")
    \/ \E p \in {MoveFar, MoveDiag} : PointerMove(Event(1, p))
    \/ PointerEnd("pointerup", Event(1, PressA), "ok")
    \/ \E pad \in {NoGamepad, PadA, PadCorner} : Update(pad)
    \/ GetState

SpecSmooth == InitSmooth /\ [][NextSmooth]_vars

-----------------------------------------------------------------------------
(* SpecHost: a host that keeps the snapshots it is handed and writes to    *)
(* them, between key, pointer and gamepad input.                           *)

InitHost == Construct(DefaultOpts, TRUE, TRUE)

NextHost ==
    \/ \E key \in {"d", " "} : KeyDown(key)
    \/ \E key \in {"d", " "} : KeyUp(key)
    \/ JoyPointerDown(Event(1, PressA), "ok")
    \/ PointerMove(Event(1, MoveFar))
    \/ PointerEnd("pointerup", Event(1, PressA), "ok")
    \/ \E pad \in {NoGamepad, PadA} : Update(pad)
    \/ GetState
    \/ HostMutateAxis
    \/ HostMutateJump

SpecHost == InitHost /\ [][NextHost]_vars

-----------------------------------------------------------------------------
(* SpecGamepad: the gamepad source alone (no touch UI, no direction key):  *)
(* update() over snapshots of a device that comes, changes and goes, with  *)
(* the default smoothing.                                                  *)

InitGamepad == Construct([DefaultOpts EXCEPT !.enableTouchUI = "false"], FALSE, FALSE)

GamepadSnapshots == {NoGamepadApi, NoGamepad, PadA, PadB, PadCorner}

NextGamepad ==
    \/ \E key \in {" ", "Shift"} : KeyDown(key)
    \/ \E key \in {" ", "Shift"} : KeyUp(key)
    \/ \E pad \in GamepadSnapshots : Update(pad)
    \/ GetState

SpecGamepad == InitGamepad /\ [][NextGamepad]_vars

-----------------------------------------------------------------------------
(* SpecButtons: the buttons of the gamepad source: update() over devices   *)
(* with every combination of the buttons it reads, and Space on the        *)
(* keyboard.                                                               *)

\* A device with n buttons, those of `pressed` down, and the stick at rest.
ButtonPad(n, pressed) ==
    [api |-> TRUE, connected |-> TRUE, axes |-> <<0, 0>>,
     nButtons |-> n, buttons |-> pressed]

\* Every combination of the six buttons update() reads, and of two it does
\* not read, on a standard device; and devices with two buttons, with six,
\* and with no buttons array.
ButtonPads ==
    {ButtonPad(StandardButtons, b) : b \in SUBSET {0, 1, 4, 5, 10, 11}}
        \cup {ButtonPad(StandardButtons, b) : b \in {{2}, {2, 3}, {0, 2}, {3, 11}}}
        \cup {ButtonPad(2, b) : b \in SUBSET {0, 1}}
        \cup {ButtonPad(6, b) : b \in {{1, 5}, {2, 4}}}
        \cup {ButtonPad(0, {})}

InitButtons ==
    Construct([DefaultOpts EXCEPT !.smooth = Scale, !.enableTouchUI = "false"], FALSE, FALSE)

NextButtons ==
    \/ KeyDown(" ")
    \/ KeyUp(" ")
    \/ \E pad \in ButtonPads \cup {NoGamepad} : Update(pad)
    \/ GetState

SpecButtons == InitButtons /\ [][NextButtons]_vars

-----------------------------------------------------------------------------
(* SpecKeyboard: the keyboard source alone: key-down and key-up events of  *)
(* the eight direction keys, of w with Shift held ("W"), of Space and of   *)
(* Shift, in any order and with repeats.                                   *)

InitKeyboard ==
    Construct([DefaultOpts EXCEPT !.smooth = Scale, !.enableTouchUI = "false"], FALSE, FALSE)

\* The e.key values of the events.
DirectionKeys ==
    {"w", "a", "s", "d", "ArrowUp", "ArrowDown", "ArrowLeft", "ArrowRight"}

EventKeys == DirectionKeys \cup {"W", " ", "Shift"}

NextKeyboard ==
    \/ \E key \in EventKeys : KeyDown(key)
    \/ \E key \in EventKeys : KeyUp(key)

SpecKeyboard == InitKeyboard /\ [][NextKeyboard]_vars

-----------------------------------------------------------------------------
(* SpecDeadzone: applyDeadzone as _pollGamepad applies it to the x axis of *)
(* the stick, for deadzones over [0, 1) and axis values over [-1, 1]: the  *)
(* y axis rests at 0, so this._gp.x is applyDeadzone(axes[0], deadzone).   *)

\* 0, the default, a half, and the largest below 1.
Deadzones == {0, DefaultDeadzone, Scale \div 2, Scale - 1}

\* A grid over [-1, 1] with its ends, and the values at and next to each
\* deadzone, of both signs.
AxisValues ==
    {i * (Scale \div 8) : i \in -8..8}
        \cup {s * (dz + d) : s \in {-1, 1}, dz \in Deadzones \ {Scale - 1}, d \in {-1, 0, 1}}
        \cup {-(Scale - 1), Scale - 1}

AxisPad(x, y) ==
    [api |-> TRUE, connected |-> TRUE, axes |-> <<x, y>>,
     nButtons |-> StandardButtons, buttons |-> {}]

InitDeadzone ==
    \E dz \in Deadzones :
        Construct([DefaultOpts EXCEPT !.deadzone = dz, !.smooth = Scale,
                                      !.enableTouchUI = "false"], FALSE, FALSE)

NextDeadzone ==
    \/ \E v \in AxisValues : Update(AxisPad(v, 0))
    \/ GetState

SpecDeadzone == InitDeadzone /\ [][NextDeadzone]_vars

-----------------------------------------------------------------------------
(* SpecTwin: two managers that differ in the smooth option only, given the *)
(* same key events, gamepad snapshots and update() calls.                  *)

\* <<smooth of the manager, larger smooth of its twin>>
SmoothPairs ==
    {<<0, DefaultSmooth>>, <<DefaultSmooth, Scale \div 2>>, <<DefaultSmooth, Scale>>}

InitTwin ==
    \E p \in SmoothPairs :
        ConstructPair([DefaultOpts EXCEPT !.smooth = p[1], !.enableTouchUI = "false"],
                      p[2], FALSE, FALSE)

NextTwin ==
    \/ \E key \in {"w", "d"} : KeyDown(key)
    \/ \E key \in {"w", "d"} : KeyUp(key)
    \/ \E pad \in {NoGamepad, PadA, PadCorner} : Update(pad)
    \/ GetState

SpecTwin == InitTwin /\ [][NextTwin]_vars

-----------------------------------------------------------------------------
(* SpecTouch: the touch source alone: two pointers on the joystick and on  *)
(* the two buttons, and events that carry no pointer id; drags inside, at  *)
(* and beyond the radius, every ending event, every behaviour of the       *)
(* browser's pointer capture, and destroy().                               *)

InitTouch == Construct([DefaultOpts EXCEPT !.smooth = Scale], TRUE, TRUE)

\* Where a pointer moves to, beyond the radius: 100 px and 300 px right of
\* PressA, and 80 px right and 60 px below it.
MoveOut == Px(200, 100)

MoveFarOut == Px(400, 100)

MoveOutDiag == Px(180, 160)

TouchMoves == {MoveNear, MoveDiag, MoveFar, MoveOut, MoveFarOut, MoveOutDiag}

\* setPointerCapture / releasePointerCapture succeeds, throws, or is not a
\* method of the element (the ?. call then does nothing).
TouchCaptureOutcomes == CaptureOutcomes \cup {"unavailable"}

\* The pointerId of the events: two pointers, and none (an event object
\* without the property).
TouchPointerIds == {1, 2, NoPointerId}

NextTouch ==
    \/ \E id \in TouchPointerIds, p \in {PressA, PressB}, c \in TouchCaptureOutcomes :
           JoyPointerDown(Event(id, p), c)
    \/ \E id \in TouchPointerIds, p \in TouchMoves : PointerMove(Event(id, p))
    \/ \E type \in EndTypes, id \in TouchPointerIds, c \in TouchCaptureOutcomes :
           PointerEnd(type, Event(id, PressA), c)
    \/ \E b \in {"jump", "sprint"}, id \in {1, 2} : ButtonPointerDown(b, Event(id, ButtonPoint))
    \/ \E b \in {"jump", "sprint"}, type \in EndTypes, id \in {1, 2}, c \in TouchCaptureOutcomes :
           ButtonPointerEnd(b, type, Event(id, ButtonPoint), c)
    \/ Destroy

SpecTouch == InitTouch /\ [][NextTouch]_vars

-----------------------------------------------------------------------------
(* SpecTeardown: destroy() between update() calls with the default         *)
(* smoothing, while a key is held, the stick is dragged and a gamepad is   *)
(* deflected.                                                              *)

InitTeardown == Construct(DefaultOpts, TRUE, TRUE)

NextTeardown ==
    \/ \E key \in {"d", " "} : KeyDown(key)
    \/ \E key \in {"d", " "} : KeyUp(key)
    \/ JoyPointerDown(Event(1, PressA), "ok")
    \/ PointerMove(Event(1, MoveFar))
    \/ PointerEnd("pointerup", Event(1, PressA), "ok")
    \/ \E pad \in {NoGamepad, PadA} : Update(pad)
    \/ Destroy

SpecTeardown == InitTeardown /\ [][NextTeardown]_vars

-----------------------------------------------------------------------------
(* SpecBlend: the smoother under smooth options inside and outside [0, 1], *)
(* with keyboard and gamepad targets on both sides of zero.                *)

\* opts.smooth: below 0, 0, the default, 1, above 1.
BlendSmooths == {-(Scale \div 2), 0, DefaultSmooth, Scale, (3 * Scale) \div 2}

InitBlend ==
    \E s \in BlendSmooths :
        Construct([DefaultOpts EXCEPT !.smooth = s, !.enableTouchUI = "false"], FALSE, FALSE)

NextBlend ==
    \/ \E key \in {"w", "d", "a"} : KeyDown(key)
    \/ \E key \in {"w", "d", "a"} : KeyUp(key)
    \/ \E pad \in {NoGamepad, PadA, PadCorner} : Update(pad)
    \/ GetState

SpecBlend == InitBlend /\ [][NextBlend]_vars

-----------------------------------------------------------------------------
(* Properties                                                              *)

touchVec == [x |-> touch.x, y |-> touch.y]

gpVec == [x |-> gp.x, y |-> gp.y]

kbVec == [x |-> kb.x, y |-> kb.y]

\* Whether a component of v is over the threshold of update().
Over(v) == Abs(v.x) > Epsilon \/ Abs(v.y) > Epsilon

\* Whether the Euclidean magnitude of v is over the threshold.
MagnitudeOver(v) == v.x * v.x + v.y * v.y > Epsilon * Epsilon

\* C1 as stated: after update(), if the touch vector's magnitude exceeds the
\* epsilon, the selected vector is the touch vector, whatever the gamepad and
\* keyboard vectors are.
C1_MagnitudePriority ==
    op.name = "update" => (MagnitudeOver(touchVec) => axis = touchVec)

\* C1 amended: after update(), if a component of the touch vector exceeds the
\* epsilon in absolute value, the selected vector is the touch vector, whatever
\* the gamepad and keyboard vectors are.
C1_TouchPriority ==
    op.name = "update" => (Over(touchVec) => axis = touchVec)

\* update() selected the touch vector over an active gamepad and an active
\* keyboard vector, both different from it.
C1_Witness ==
    /\ op.name = "update"
    /\ Over(touchVec) /\ Over(gpVec) /\ Over(kbVec)
    /\ axis = touchVec /\ axis # gpVec /\ axis # kbVec

\* C2: update() selects the first active candidate in the order touch, gamepad,
\* keyboard, whole: the gamepad vector when touch is not active, whatever the
\* keyboard vector; the keyboard vector when neither touch nor gamepad is
\* active, as in the update() after the session ended with a key still held.
C2_PriorityOrder ==
    op.name = "update" =>
        /\ Over(touchVec) => axis = touchVec
        /\ ~Over(touchVec) /\ Over(gpVec) => axis = gpVec
        /\ ~Over(touchVec) /\ ~Over(gpVec) /\ Over(kbVec) => axis = kbVec

\* update() selected the keyboard vector after a joystick session that has
\* ended (the session's origin is still recorded), with a key held and the
\* gamepad vector nonzero but not active.
C2_Witness ==
    /\ op.name = "update"
    /\ ~touch.active /\ touch.originX = PressA.x
    /\ Over(kbVec) /\ ~Over(gpVec) /\ gpVec # [x |-> 0, y |-> 0]
    /\ axis = kbVec

\* C3 as stated: after destroy(), no key or pointer event changes the keyboard
\* state, the touch session, the touch vector or the button latches.
C3_NoEventAfterDestroy ==
    [][destroyCalls > 0 /\ op'.name \in {"keydown", "keyup", "joydown", "pointermove",
                                          "pointerend", "buttondown", "buttonup"}
         => UNCHANGED <<kb, touch>>]_vars

\* After destroy() during a drag, a pointermove of the tracked pointer has set
\* the touch vector.
C3_Witness ==
    /\ destroyCalls > 0 /\ op.name = "pointermove"
    /\ ui = "null" /\ touch.active /\ touch.x # 0

\* C4 as stated: after destroy(), the touch-ui container, the injected style
\* element and every window listener the manager added are gone.
C4_NoGlobalResourceLeft ==
    destroyCalls > 0 => ~dom.ui /\ ~dom.style /\ winListeners = {}

\* After destroy() of a manager with a touch UI, the container is out of the
\* document, and the style element and the window pointer listeners remain.
C4_Witness ==
    /\ destroyCalls > 0 /\ ui = "null" /\ ~dom.ui
    /\ dom.style /\ PointerListeners \subseteq winListeners
    /\ KeyListeners \cap winListeners = {}

\* C5: a destroy() after the first raises no error and changes nothing: not
\* the manager's fields, the document or the listeners.
C5_DestroyIdempotent ==
    [][destroyCalls >= 1 /\ destroyCalls' = destroyCalls + 1
         => /\ ~threw'
            /\ UNCHANGED <<cfg, held, twin, state, kb, gp, touch, smoothed, ui, stick, dom,
                           winListeners, ret>>]_vars

\* destroy() was called a second time during a drag.
C5_Witness ==
    op.name = "destroy" /\ destroyCalls = 2 /\ touch.active /\ ~threw

\* C6: during a session, a pointer event of another pointer (down on the
\* joystick, move, up, cancel, leave, anywhere) leaves the session (active,
\* pointerId, origin) and the touch vector as they are.
C6_SingleSession ==
    [][touch.active /\ op'.foreign
         => /\ touch'.active = touch.active
            /\ touch'.pointerId = touch.pointerId
            /\ touch'.originX = touch.originX
            /\ touch'.originY = touch.originY
            /\ touch'.x = touch.x
            /\ touch'.y = touch.y]_vars

\* A pointer-up of another pointer was delivered during a drag that has
\* moved the stick.
C6_Witness ==
    /\ op.name = "pointerend" /\ op.foreign
    /\ touch.active /\ touch.x # 0

\* C7: the jump and the sprint update() returns are the OR of the three
\* sources' flags, whichever source's vector was selected.
C7_ButtonsAreOr ==
    op.name = "update" =>
        /\ ret.jump = (touch.jump \/ kb.jump \/ gp.jump)
        /\ ret.sprint = (touch.sprint \/ kb.sprint \/ gp.sprint)

\* update() selected the touch vector and returned the jump of the gamepad
\* alone and the sprint of the keyboard alone.
C7_Witness ==
    /\ op.name = "update"
    /\ Over(touchVec) /\ axis = touchVec
    /\ ret.jump /\ gp.jump /\ ~touch.jump /\ ~kb.jump
    /\ ret.sprint /\ kb.sprint /\ ~touch.sprint /\ ~gp.sprint

C9_SnapshotIsCopy ==
    [][/\ op'.name = "mutate" => UNCHANGED <<state, smoothed, kb, gp, touch>>
       /\ op'.name \in {"update", "getState"}
            => /\ ret'.x = updRet'.x /\ ret'.y = updRet'.y
               /\ ret'.jump = updRet'.jump /\ ret'.sprint = updRet'.sprint]_vars

\* After an update(), the host has written to the axis and to the jump of the
\* snapshot it holds, and this.state holds neither written value.
C9_Witness ==
    /\ op.name = "mutate" /\ nUpdates > 0
    /\ ret.x = MutatedValue /\ state.x # MutatedValue
    /\ ret.jump # state.jump

\* C10: getState() changes no state of the manager (it neither polls the
\* gamepad nor advances the smoothed accumulator) and returns the values the
\* last update() returned.
C10_GetStateIsPure ==
    [][op'.name = "getState"
         => /\ UNCHANGED <<state, smoothed, kb, gp, touch, hw, ui, axis>>
            /\ ret'.x = updRet.x /\ ret'.y = updRet.y
            /\ ret'.jump = updRet.jump /\ ret'.sprint = updRet.sprint]_vars

\* getState() after an update(), with Space pressed and the stick dragged in
\* between: it returned the update's jump and axis.
C10_Witness ==
    /\ op.name = "getState" /\ nUpdates > 0
    /\ kb.jump /\ ~ret.jump
    /\ touch.x # 0 /\ ret.x = 0

\* C11 as stated: with enableTouchUI false, or unset on a display that is not
\* coarse, the manager creates no element, no style and no pointer listener,
\* and the touch vector and the touch buttons stay zero and false.
C11_TouchOnlyCoarseOrForced ==
    (cfg.enableTouchUI = "false" \/ (cfg.enableTouchUI = "unset" /\ ~cfg.coarse))
        => /\ ui = "null" /\ ~dom.ui /\ ~dom.style
           /\ winListeners \cap PointerListeners = {}
           /\ touch.x = 0 /\ touch.y = 0 /\ ~touch.jump /\ ~touch.sprint

\* A manager built with the option unset on a fine display that has touch
\* events: it has the container, the style and the window pointer listeners,
\* and has run an update().
C11_Witness ==
    /\ cfg.enableTouchUI = "unset" /\ ~cfg.coarse /\ cfg.ontouchstart
    /\ ui = "element" /\ dom.ui /\ dom.style
    /\ PointerListeners \subseteq winListeners
    /\ op.name = "update"

\* C12: after an update() that found no gamepad API or no device at the
\* index, the gamepad source is the zero vector with jump and sprint false,
\* and no error was raised.
C12_GamepadAbsentIsNeutral ==
    op.name = "update" /\ (~hw.api \/ ~hw.connected)
        => /\ gp = [x |-> 0, y |-> 0, jump |-> FALSE, sprint |-> FALSE]
           /\ ~threw

\* The second update() found the device gone after the first had found it
\* deflected: the axis it returned is still on its way back to zero (no
\* other source has a vector here), and the gamepad source is neutral.
C12_Witness ==
    /\ op.name = "update" /\ nUpdates = 2
    /\ hw.api /\ ~hw.connected
    /\ kbVec = [x |-> 0, y |-> 0] /\ touchVec = [x |-> 0, y |-> 0]
    /\ ret.x # 0
    /\ gpVec = [x |-> 0, y |-> 0] /\ ~gp.jump /\ ~gp.sprint

\* The directions held, from the key set the manager keeps.
HeldRight == "d" \in kb.keys \/ "arrowright" \in kb.keys

HeldLeft == "a" \in kb.keys \/ "arrowleft" \in kb.keys

HeldForward == "w" \in kb.keys \/ "arrowup" \in kb.keys

HeldBack == "s" \in kb.keys \/ "arrowdown" \in kb.keys

\* Whether v is 1/sqrt(2) to the resolution of the model: the hypotenuse is
\* rounded up and the quotient truncated, two units at most.
IsInvSqrt2(v) == 2 * v * v <= Scale * Scale /\ 2 * (v + 2) * (v + 2) > Scale * Scale

\* C13: for every set of held direction keys the keyboard vector has a
\* magnitude of at most 1; two perpendicular directions held (and not their
\* opposites) give components of equal absolute value 1/sqrt(2); opposing
\* directions held together give 0 on their axis.
C13_KeyboardVector ==
    /\ kb.x * kb.x + kb.y * kb.y <= Scale * Scale
    /\ (HeldRight # HeldLeft) /\ (HeldForward # HeldBack)
         => Abs(kb.x) = Abs(kb.y) /\ IsInvSqrt2(Abs(kb.x))
    /\ (HeldRight /\ HeldLeft) => kb.x = 0
    /\ (HeldForward /\ HeldBack) => kb.y = 0

\* Back and left are held, through a letter and an arrow: the vector is the
\* negative diagonal.
C13_Witness ==
    /\ op.name = "keydown"
    /\ kb.keys = {"s", "arrowleft"}
    /\ kb.x < 0 /\ kb.y = kb.x

\* C17: the keyboard jump latch is true exactly when the last event of Space
\* was a key-down, and the sprint latch exactly when the last event of Shift
\* was a key-down.
C17_LatchesFollowKeys ==
    /\ kb.jump = (" " \in held)
    /\ kb.sprint = ("Shift" \in held)

\* Space and d are held and the last event released another key: the jump
\* latch is true and the sprint latch false.
C17_Witness ==
    /\ op.name = "keyup"
    /\ held = {" ", "d"}
    /\ kb.jump /\ ~kb.sprint

\* Whether r is sign(v) * (|v| - dz) / (1 - dz) to the resolution: of the
\* sign of v, and within one unit, toward zero, of the quotient.
IsRescaled(r, v, dz) ==
    /\ Sign(r) * Sign(v) >= 0
    /\ Abs(r) * (Scale - dz) <= (Abs(v) - dz) * Scale
    /\ (Abs(r) + 1) * (Scale - dz) > (Abs(v) - dz) * Scale

\* C14: applyDeadzone(v, dz), as update() applied it to the stick's x axis
\* v: it is 0 when |v| <= dz and sign(v) * (|v| - dz) / (1 - dz) otherwise;
\* it is 1 at v = 1 and -1 at v = -1; and of two successive applications the
\* one of the larger v is not the smaller.
C14_ApplyDeadzone ==
    [][op'.name = "update"
         => LET v == hw'.axes[1]
                dz == cfg.deadzone
            IN  /\ Abs(v) <= dz => gp'.x = 0
                /\ Abs(v) > dz => IsRescaled(gp'.x, v, dz)
                /\ v = Scale => gp'.x = Scale
                /\ v = -Scale => gp'.x = -Scale
                /\ (op.name = "update" /\ hw.axes[1] <= v) => gp.x <= gp'.x]_vars

\* With the deadzone a half, a second update() read the stick at three
\* quarters to the left, after a first at the edge of the deadzone: the
\* source went from 0 to minus a half.
C14_Witness ==
    /\ op.name = "update" /\ nUpdates = 2 /\ cfg.deadzone = Scale \div 2
    /\ hw.axes[1] = -(3 * Scale) \div 4
    /\ gp.x = -(Scale \div 2)
    /\ ret.x = gp.x

\* An update() step in which no device is active: the touch and keyboard
\* vectors are zero and the poll gives the zero vector.
IdleUpdate ==
    /\ op'.name = "update"
    /\ touchVec = [x |-> 0, y |-> 0] /\ kbVec = [x |-> 0, y |-> 0]
    /\ gp'.x = 0 /\ gp'.y = 0

\* Whether the component `now` has kept the sign of `before` (or is zero) and
\* is not larger in absolute value.
TowardZero(before, now) == Sign(now) * Sign(before) >= 0 /\ Abs(now) <= Abs(before)

Remaining(target, value) == Abs(target - value)

\* C16 as stated: after each update(), the manager with the higher smoothing
\* (the twin) has moved no further toward the selected vector than the
\* manager with the lower: on each component it has at least as far to go.
C16_HigherIsSmoother ==
    op.name = "update" /\ twin.smooth > cfg.smooth
        => /\ Remaining(axis.x, twin.x) >= Remaining(axis.x, state.x)
           /\ Remaining(axis.y, twin.y) >= Remaining(axis.y, state.y)

\* After the first update() with d held, the manager with smooth 0.2 has
\* returned 0.2 and its twin with smooth 0.5 is at 0.5: the higher value
\* has moved further.
C16_Witness ==
    /\ op.name = "update" /\ nUpdates = 1
    /\ cfg.smooth = DefaultSmooth /\ twin.smooth = Scale \div 2
    /\ axis = [x |-> Scale, y |-> 0]
    /\ ret.x = DefaultSmooth /\ twin.x = Scale \div 2

\* Whether button i of the device the last update() polled is pressed; a
\* device has no entry past its buttons array.
Pressed(i) == i < hw.nButtons /\ i \in hw.buttons

\* C18: after an update() that found a device, the gamepad jump is true
\* exactly when button 0 or 1 is pressed and the gamepad sprint exactly when
\* one of the buttons 4, 5, 10, 11 is pressed.
C18_GamepadButtons ==
    op.name = "update" /\ hw.api /\ hw.connected
        => /\ gp.jump = (Pressed(0) \/ Pressed(1))
           /\ gp.sprint = (\E i \in {4, 5, 10, 11} : Pressed(i))

\* update() polled a device that has two buttons only, the second pressed:
\* jump is true, and sprint, whose entries are all missing, is false.
C18_Witness ==
    /\ op.name = "update" /\ hw.connected
    /\ hw.nButtons = 2 /\ hw.buttons = {1}
    /\ gp.jump /\ ~gp.sprint /\ ret.jump

\* C19: a pointer-down on the joystick with no session active starts one:
\* active, the pointer id of the event, the origin at the press point, the
\* touch vector zero; and the vector of a session stays zero through every
\* step that is not a pointer-move of the tracked pointer.
C19_IdleToDragging ==
    [][/\ op'.name = "joydown" /\ ~touch.active
            => /\ touch'.active
               /\ touch'.pointerId = op'.e.pointerId
               /\ touch'.originX = op'.e.clientX /\ touch'.originY = op'.e.clientY
               /\ touch'.x = 0 /\ touch'.y = 0
       /\ touch.active /\ touch.x = 0 /\ touch.y = 0
          /\ ~(op'.name = "pointermove" /\ op'.tracked)
            => touch'.x = 0 /\ touch'.y = 0]_vars

\* Pointer 2 pressed the joystick at the second press point while d was
\* held on the keyboard: the session is its own and the vector is zero.
C19_Witness ==
    /\ op.name = "joydown" /\ ~op.tracked /\ ~op.foreign
    /\ op.e.pointerId = 2 /\ op.e.clientX = PressB.x
    /\ touch.active /\ touch.pointerId = 2
    /\ touch.originX = PressB.x /\ touch.originY = PressB.y
    /\ touch.x = 0 /\ touch.y = 0
    /\ kb.x # 0

C21_FallbackSum ==
    op.name = "update" /\ ~Over(touchVec) /\ ~Over(gpVec) /\ ~Over(kbVec)
        => /\ axis.x = Max(-Scale, Min(Scale, touch.x + gp.x + kb.x))
           /\ axis.y = Max(-Scale, Min(Scale, touch.y + gp.y + kb.y))

\* update() found the touch vector and the gamepad vector both nonzero and
\* neither active, and selected their sum, which is over the threshold.
C21_Witness ==
    /\ op.name = "update"
    /\ ~Over(touchVec) /\ ~Over(gpVec) /\ ~Over(kbVec)
    /\ touch.x # 0 /\ gp.x # 0
    /\ axis.x = touch.x + gp.x /\ axis.y = touch.y
    /\ Over(axis)

\* The touch state with one field replaced by its value in a second one.
WithLatchOf(t, t2, which) == [t EXCEPT ![which] = t2[which]]

\* C22: the touch buttons are independent of the joystick and of each
\* other.  A pointer-down on a button sets its latch and a pointer-up,
\* -cancel or -leave on it clears it, and neither changes the other
\* button's latch; from a pointer that does not hold the joystick session
\* such an event changes nothing else of the touch state (session, origin,
\* vector); and a down, move or end event off the buttons changes neither
\* latch.
C22_ButtonsIndependent ==
    [][/\ op'.name \in {"buttondown", "buttonup"}
            => /\ touch'[op'.target] = (op'.name = "buttondown")
               /\ op'.target = "jump" => touch'.sprint = touch.sprint
               /\ op'.target = "sprint" => touch'.jump = touch.jump
               /\ ~op'.tracked => touch' = WithLatchOf(touch, touch', op'.target)
       /\ op'.name \in {"joydown", "pointermove", "pointerend"}
            => touch'.jump = touch.jump /\ touch'.sprint = touch.sprint]_vars

\* During a drag of pointer 1 that has moved the stick, with Sprint held,
\* pointer 2 has released the Jump button: the session and its vector are
\* as they were and Sprint is still held.
C22_Witness ==
    /\ op.name = "buttonup" /\ op.target = "jump" /\ op.type = "pointerup"
    /\ op.foreign /\ op.e.pointerId = 2
    /\ touch.active /\ touch.pointerId = 1 /\ touch.x # 0
    /\ touch.sprint /\ ~touch.jump

\* How far a raw axis value r is past the deadzone dz (0 inside it).
PastDeadzone(r, dz) == Max(Abs(r) - dz, 0)

\* C23: after an update() that found a device with raw axes (rx, ry), each
\* component of the gamepad vector is 0 when its raw axis is within the
\* deadzone; x has the sign of rx and y the sign opposite to ry (raw up,
\* negative, is forward, positive); the vector's magnitude is at most 1; when
\* the two rescaled axes lie within the unit circle, x is the rescaled rx and
\* y the rescaled -ry, each on its own, and otherwise the vector has
\* magnitude 1 to the resolution; and raw (0.5, -0.5) with deadzone 0.15
\* gives x = y = 0.35 / 0.85, both positive.
C23_GamepadAxisMapping ==
    op.name = "update" /\ hw.api /\ hw.connected
        => LET rx == hw.axes[1]
               ry == hw.axes[2]
               dz == cfg.deadzone
               px == PastDeadzone(rx, dz)
               py == PastDeadzone(ry, dz)
           IN  /\ Abs(rx) <= dz => gp.x = 0
               /\ Abs(ry) <= dz => gp.y = 0
               /\ Abs(rx) > dz => Sign(gp.x) = Sign(rx)
               /\ Abs(ry) > dz => Sign(gp.y) = -Sign(ry)
               /\ gp.x * gp.x + gp.y * gp.y <= Scale * Scale
               /\ px * px + py * py <= (Scale - dz) * (Scale - dz)
                    => /\ Abs(rx) > dz => IsRescaled(gp.x, rx, dz)
                       /\ Abs(ry) > dz => IsRescaled(gp.y, -ry, dz)
               /\ px * px + py * py > (Scale - dz) * (Scale - dz)
                    => gp.x * gp.x + gp.y * gp.y >= (Scale - 2) * (Scale - 2)
               /\ rx = Scale \div 2 /\ ry = -(Scale \div 2) /\ dz = DefaultDeadzone
                    => /\ gp.x = gp.y /\ gp.x > 0
                       /\ gp.x = ((35 * Scale) \div 85)

\* update() read the stick half right and half up with the default
\* deadzone: both components of the gamepad vector are 0.35 / 0.85.
C23_Witness ==
    /\ op.name = "update" /\ hw.connected
    /\ hw.axes = <<Scale \div 2, -(Scale \div 2)>>
    /\ cfg.deadzone = DefaultDeadzone
    /\ gp.x = (35 * Scale) \div 85 /\ gp.y = (35 * Scale) \div 85

\* C24: the drag is capped at joystickRadius: the stick is drawn at most a
\* radius from its rest, the touch vector has a magnitude of at most 1, and
\* after a move of the tracked pointer to a point level with the origin and
\* a radius or more to its right, the touch vector is exactly (1, 0) and the
\* stick is drawn a radius to the right, however far the pointer went.
C24_DragCapped ==
    LET r == cfg.joystickRadius * PxScale
    IN  /\ touch.x * touch.x + touch.y * touch.y <= Scale * Scale
        /\ stick.dx * stick.dx + stick.dy * stick.dy <= r * r
        /\ (/\ op.name = "pointermove" /\ op.tracked
            /\ op.e.clientY = touch.originY
            /\ op.e.clientX - touch.originX >= r)
              => /\ touch.x = Scale /\ touch.y = 0
                 /\ stick.dx = r /\ stick.dy = 0

\* The tracked pointer has moved from the second press point (120, 100) to
\* (400, 100), 280 px to the right with a radius of 60: the touch vector is
\* (1, 0).
C24_Witness ==
    /\ op.name = "pointermove" /\ op.tracked
    /\ touch.originX = PressB.x /\ touch.originY = PressB.y
    /\ op.e.clientX = MoveFarOut.x /\ op.e.clientY = MoveFarOut.y
    /\ cfg.joystickRadius = DefaultJoystickRadius
    /\ touch.x = Scale /\ touch.y = 0

\* C25: update() only reads the keyboard and touch sources: it leaves the
\* held keys, the keyboard vector and latches, the touch session, vector and
\* button latches as they are (and the touch UI, the document and the
\* listeners); of the manager's fields it writes only the gamepad state, the
\* smoothed accumulator and the public state.
C25_UpdateReadsSources ==
    [][op'.name = "update"
         => UNCHANGED <<held, kb, touch, ui, stick, dom, winListeners, cfg>>]_vars

\* update() ran during a drag with d and Shift held and the Jump button
\* pressed, and polled a deflected gamepad: it wrote the gamepad state and
\* the public state, and the sources are as the events left them.
C25_Witness ==
    /\ op.name = "update"
    /\ touch.active /\ touch.x # 0 /\ touch.jump /\ ~touch.sprint
    /\ kb.keys = {"d", "shift"} /\ kb.x = Scale /\ kb.sprint /\ ~kb.jump
    /\ gp.x # 0 /\ gp.jump
    /\ state.x = touch.x /\ state.jump /\ state.sprint

\* C26: update() reports the sources as they are at the call, and no event is
\* buffered: the jump it returns is true exactly when, at the call, Space is
\* down (its last event was a keydown), the Jump button is latched or the
\* polled device has button 0 or 1 pressed, and likewise the sprint with
\* Shift; so after a jump input was pressed and released between two calls,
\* with no jump input down at the second, the second returns jump false (as
\* the first did), and with Space down at the call it returns jump true.
C26_NoBuffering ==
    op.name = "update" =>
        /\ ret.jump = (" " \in held \/ touch.jump \/ Pressed(0) \/ Pressed(1))
        /\ ret.sprint = ("Shift" \in held \/ touch.sprint
                            \/ \E i \in {4, 5, 10, 11} : Pressed(i))
        /\ (tap = "passed" /\ " " \notin held /\ ~touch.jump /\ ~gp.jump) => ~ret.jump
        /\ " " \in held => ret.jump

\* The second update() ran after a jump input had been pressed and released
\* since the first, with none down at the call: it returned jump false, as
\* the first had.
C26_Witness ==
    /\ op.name = "update" /\ nUpdates = 2
    /\ tap = "passed"
    /\ " " \notin held /\ ~touch.jump /\ ~gp.jump
    /\ ~ret.jump

\* C27: pointer capture is best-effort.  Whatever the browser's
\* setPointerCapture does (succeeds, throws, or is not there), the
\* pointer-down that calls it has started the session (active, the pointer
\* id and the origin of the event); whatever releasePointerCapture does, the
\* ending event that calls it has ended the session (vector zero, not
\* active, pointer id cleared); and no error leaves either handler.
C27_CaptureBestEffort ==
    [][/\ op'.name = "joydown" /\ op'.capture \in TouchCaptureOutcomes
            => /\ touch'.active
               /\ touch'.pointerId = getPointerId(op'.e)
               /\ touch'.originX = op'.e.clientX /\ touch'.originY = op'.e.clientY
               /\ ~threw'
       /\ op'.name \in {"pointerend", "buttonup"} /\ op'.capture \in TouchCaptureOutcomes
            => /\ ~touch'.active /\ touch'.pointerId = NoPointerId
               /\ touch'.x = 0 /\ touch'.y = 0
               /\ stick' = [dx |-> 0, dy |-> 0]
               /\ ~threw'
       /\ op'.name \in {"joydown", "pointerend", "buttonup"}
          /\ (touch'.active # touch.active)
            => op'.capture \in TouchCaptureOutcomes]_vars

\* A pointer-up of the tracked pointer has ended the session, and
\* releasePointerCapture threw: the session is cleared and no error left the
\* handler.
C27_Witness ==
    /\ op.name = "pointerend" /\ op.type = "pointerup" /\ op.tracked
    /\ op.capture = "throws"
    /\ ~touch.active /\ touch.pointerId = NoPointerId
    /\ touch.x = 0 /\ touch.y = 0
    /\ ~threw

\* C28: the smoothed accumulator is reset only at construction: only
\* update() writes it; destroy() leaves it, the public state and the state of
\* every source (held keys, keyboard vector, gamepad state, touch session and
\* vector, latches) as they are; and an update() that follows a destroy()
\* selects its vector from the keyboard and touch state as they were at the
\* destroy() and steps the accumulator from the value it had there.
C28_DestroyKeepsAccumulator ==
    [][/\ smoothed' # smoothed => op'.name = "update"
       /\ op'.name = "destroy"
            => UNCHANGED <<smoothed, state, kb, gp, touch, held, axis>>
       /\ op.name = "destroy" /\ op'.name = "update"
            => /\ axis' = selectAxis(candidates(touch, gp', kb))
               /\ smoothed'.x = lerp(smoothed.x, axis'.x, cfg.smooth)
               /\ smoothed'.y = lerp(smoothed.y, axis'.y, cfg.smooth)
               /\ state'.x = smoothed'.x /\ state'.y = smoothed'.y]_vars

\* The second update() came after a destroy() with d still recorded as
\* held: from the 0.2 the first had reached it stepped the accumulator on
\* to 0.36.
C28_Witness ==
    /\ op.name = "update" /\ nUpdates = 2 /\ destroyCalls >= 1
    /\ cfg.smooth = DefaultSmooth
    /\ "keydown" \notin winListeners /\ kb.x = Scale /\ axis.x = Scale
    /\ smoothed.x = (36 * Scale) \div 100
    /\ state.x = smoothed.x

\* 1/sqrt(2) as the model computes it: 1 / hypot(1, 1).
InvSqrt2 == TruncDiv(Scale * Scale, Hypot(Scale, Scale))

\* The unit-circle-limited sum of the four binary directions of a key set.
DirectionVector(ks) ==
    LET right == "d" \in ks \/ "arrowright" \in ks
        left == "a" \in ks \/ "arrowleft" \in ks
        forward == "w" \in ks \/ "arrowup" \in ks
        back == "s" \in ks \/ "arrowdown" \in ks
        dx == (IF right THEN 1 ELSE 0) - (IF left THEN 1 ELSE 0)
        dy == (IF forward THEN 1 ELSE 0) - (IF back THEN 1 ELSE 0)
        m == IF dx # 0 /\ dy # 0 THEN InvSqrt2 ELSE Scale
    IN  [x |-> dx * m, y |-> dy * m]

\* C29: after every key-down and key-up event the keyboard vector is the
\* unit-circle-limited sum of the four binary directions of the key set the
\* manager holds then, whatever events led to that set; the set holds an
\* arrow key exactly when its last event was a key-down; a key-down of a key
\* that is in the set changes nothing of the keyboard state; and a key-up of
\* one key of a direction while the other is in the set leaves the vector as
\* it is, the direction still active.
C29_VectorFromKeySet ==
    [][op'.name \in {"keydown", "keyup"}
         => /\ kbVec' = DirectionVector(kb'.keys)
            /\ \A k \in {"ArrowUp", "ArrowDown", "ArrowLeft", "ArrowRight"} :
                   (toLowerCase(k) \in kb'.keys) = (k \in held')
            /\ (op'.name = "keydown" /\ kb'.keys = kb.keys) => kb' = kb
            /\ \A p \in DirectionAliases : \A i \in {1, 2} :
                   (/\ op'.name = "keyup" /\ kb.keys \ kb'.keys = {p[i]}
                    /\ p[3 - i] \in kb.keys)
                     => /\ kbVec' = kbVec
                        /\ DirectionVector({p[3 - i]}) = DirectionVector({p[i]})
                        /\ kbVec'.x * DirectionVector({p[i]}).x >= 0
                        /\ kbVec'.y * DirectionVector({p[i]}).y >= 0]_vars

\* d has been released while ArrowRight and w are held: right is still
\* active, in the diagonal with forward.
C29_Witness ==
    /\ op.name = "keyup" /\ op.released = "d"
    /\ kb.keys = {"arrowright", "w"}
    /\ held = {"ArrowRight", "w"}
    /\ kb.x = InvSqrt2 /\ kb.y = InvSqrt2

\* The touch session is consistent: active exactly when pointerId is not
\* null, and the vector (0, 0) when no session is active.
TouchSessionConsistent ==
    /\ touch.active = (touch.pointerId # NoPointerId)
    /\ ~touch.active => touch.x = 0 /\ touch.y = 0

\* C30: in every reachable state the touch session is active exactly when
\* its pointerId is not null, and the touch vector is (0, 0) whenever no
\* session is active; and from the pointer-down that starts a session to the
\* event that ends it (through every step that leaves it active) the origin
\* and the pointerId do not change.
C30_TouchSessionInvariant ==
    /\ TouchSessionConsistent
    /\ [][/\ TouchSessionConsistent'
          /\ (touch.active /\ touch'.active)
               => /\ touch'.pointerId = touch.pointerId
                  /\ touch'.originX = touch.originX
                  /\ touch'.originY = touch.originY]_vars

\* A session started by an event without a pointer id, at the second press
\* point, is tracked as pointer 0; it has been dragged, and a pointer-down of
\* pointer 1 at the first press point has just been ignored.
C30_Witness ==
    /\ op.name = "joydown" /\ op.foreign
    /\ op.e.pointerId = 1 /\ op.e.clientX = PressA.x
    /\ touch.active /\ touch.pointerId = 0
    /\ touch.originX = PressB.x /\ touch.originY = PressB.y
    /\ touch.x # 0

\* The names of the operations that are key or pointer events.
EventNames ==
    {"keydown", "keyup", "joydown", "pointermove", "pointerend", "buttondown", "buttonup"}

\* C31: key and pointer events never modify the gamepad state, the smoothed
\* accumulator or the public state: across every event the snapshot
\* getState() would return is the same, so it is constant between two
\* update() calls; and the gamepad state, the accumulator and the public
\* state change in update() steps only.
C31_EventsLeaveOutputs ==
    [][/\ op'.name \in EventNames
            => /\ UNCHANGED <<gp, smoothed, state, hw>>
               /\ getState(state') = getState(state)
       /\ (gp' # gp \/ smoothed' # smoothed \/ state' # state) => op'.name = "update"]_vars

\* After an update() that polled a deflected gamepad, a pointermove of the
\* tracked pointer has set the touch vector: the public state still holds
\* the values that update() returned, and the gamepad state is as polled.
C31_Witness ==
    /\ op.name = "pointermove" /\ op.tracked /\ nUpdates >= 1
    /\ touch.x # 0 /\ gp.x # 0
    /\ state.x = gp.x /\ state.x # touch.x
    /\ state = updRet

\* v lies between a and b, both included, up to the distance tol.
Between(v, a, b, tol) == Min(a, b) - tol <= v /\ v <= Max(a, b) + tol

\* C32 as stated: for any smooth option, values outside [0, 1] included, after
\* update() each component of the smoothed accumulator lies between its
\* previous value and the selected target component (inclusive); with
\* smooth = 1 it equals the target after one call and with smooth = 0 it
\* never changes.
C32_BlendExact ==
    [][op'.name = "update"
         => /\ Between(smoothed'.x, smoothed.x, axis'.x, 0)
            /\ Between(smoothed'.y, smoothed.y, axis'.y, 0)
            /\ cfg.smooth = Scale => smoothed' = [x |-> axis'.x, y |-> axis'.y]
            /\ cfg.smooth = 0 => smoothed' = smoothed]_vars

\* C32: for any smooth option, values outside [0, 1] included, the blend
\* factor is clamped into [0, 1], so after update() each component of the
\* smoothed accumulator lies between its previous value and the selected
\* target component up to one rounding step of the arithmetic; with
\* smooth >= 1 it is within one step of the target, and equal to it when the
\* previous value was 0 or the target itself; with smooth <= 0 it never
\* changes.
C32_BlendClamped ==
    [][op'.name = "update"
         => /\ clamp(blendFactor(cfg.smooth), 0, Scale) \in 0..Scale
            /\ Between(smoothed'.x, smoothed.x, axis'.x, 1)
            /\ Between(smoothed'.y, smoothed.y, axis'.y, 1)
            /\ cfg.smooth >= Scale =>
                  /\ Abs(smoothed'.x - axis'.x) <= 1 /\ Abs(smoothed'.y - axis'.y) <= 1
                  /\ smoothed.x \in {0, axis'.x} => smoothed'.x = axis'.x
                  /\ smoothed.y \in {0, axis'.y} => smoothed'.y = axis'.y
            /\ cfg.smooth <= 0 => smoothed' = smoothed]_vars

\* An update() under a smooth option above 1 has moved the accumulator from a
\* nonzero value to a target on the other side of zero, and has missed the
\* target by one step.
C32_Witness ==
    /\ op.name = "update" /\ nUpdates >= 2 /\ cfg.smooth > Scale
    /\ axis.x > 0 /\ Abs(smoothed.x - axis.x) = 1

-----------------------------------------------------------------------------
(* The variant src/unnamed/part_000                                        *)
(*                                                                         *)
(* The same class with doc comments.  Its key handlers recompute the       *)
(* movement in place where src/src/input.js calls _recalcKeyboardAxes();   *)
(* its _pollGamepad, its capture helpers and its _updateStickVisual guard  *)
(* with ?:, && and != null where src/src/input.js has ?. ; its onJoyUp     *)
(* writes the two components in two statements.  The constructor,          *)
(* getState, onJoyDown, onJoyMove, the button handlers, _setupTouchUI,     *)
(* the rules of _injectStyles and the helper functions clamp, lerp,        *)
(* normalize2, applyDeadzone, getPointerId and getPoint have the           *)
(* statements of src/src/input.js, so the operators above stand for them.  *)

\* part_000, this._onKeyDown(e): the new this._kb.
onKeyDown_p0(k0, key) ==
    LET k == toLowerCase(key)
        ks == k0.keys \cup {k}
        x == (IF "d" \in ks \/ "arrowright" \in ks THEN 1 ELSE 0)
             + (IF "a" \in ks \/ "arrowleft" \in ks THEN -1 ELSE 0)
        y == (IF "w" \in ks \/ "arrowup" \in ks THEN 1 ELSE 0)
             + (IF "s" \in ks \/ "arrowdown" \in ks THEN -1 ELSE 0)
        norm == normalize2(x * Scale, y * Scale)
    IN  [x |-> norm.x, y |-> norm.y,
         jump |-> IF k = " " THEN TRUE ELSE k0.jump,
         sprint |-> IF k = "shift" THEN TRUE ELSE k0.sprint,
         keys |-> ks]

\* part_000, this._onKeyUp(e): the new this._kb.
onKeyUp_p0(k0, key) ==
    LET k == toLowerCase(key)
        ks == k0.keys \ {k}
        x == (IF "d" \in ks \/ "arrowright" \in ks THEN 1 ELSE 0)
             + (IF "a" \in ks \/ "arrowleft" \in ks THEN -1 ELSE 0)
        y == (IF "w" \in ks \/ "arrowup" \in ks THEN 1 ELSE 0)
             + (IF "s" \in ks \/ "arrowdown" \in ks THEN -1 ELSE 0)
        norm == normalize2(x * Scale, y * Scale)
    IN  [x |-> norm.x, y |-> norm.y,
         jump |-> IF k = " " THEN FALSE ELSE k0.jump,
         sprint |-> IF k = "shift" THEN FALSE ELSE k0.sprint,
         keys |-> ks]

\* part_000: const btn = (i) => !!(gp.buttons && gp.buttons[i] && gp.buttons[i].pressed)
\* gp.buttons[i] is undefined past the array (and there is no entry without
\* the array), which ends the && chain with a falsy value.
btn_p0(pad, i) == i < pad.nButtons /\ i \in pad.buttons

\* part_000's _pollGamepad() reading the axes without the deadzone.
pollGamepad_p0NoDeadzone(pad, deadzone) ==
    IF ~pad.api THEN [x |-> 0, y |-> 0, jump |-> FALSE, sprint |-> FALSE]
    ELSE IF ~pad.connected THEN [x |-> 0, y |-> 0, jump |-> FALSE, sprint |-> FALSE]
    ELSE LET v == normalize2(rawAxis(pad, 0), -rawAxis(pad, 1))
         IN  [x |-> v.x, y |-> v.y,
              jump |-> btn_p0(pad, 0) \/ btn_p0(pad, 1),
              sprint |-> btn_p0(pad, 10) \/ btn_p0(pad, 11) \/ btn_p0(pad, 4)
                         \/ btn_p0(pad, 5)]

\* part_000, _pollGamepad(): the new this._gp.
\* gps = navigator.getGamepads ? navigator.getGamepads() : null;
\* if (!gps) { zero; return; }  gp = gps[this.gamepadIndex];  if (!gp) { zero; return; }
pollGamepad_p0(pad, deadzone) ==
    LET zero == [x |-> 0, y |-> 0, jump |-> FALSE, sprint |-> FALSE]
        gps == IF pad.api THEN "gamepads" ELSE "null"
    IN  IF gps = "null" THEN zero
        ELSE IF ~pad.connected THEN zero
        ELSE LET rawX == rawAxis(pad, 0)
                 rawY == rawAxis(pad, 1)
                 dzX == applyDeadzone(rawX, deadzone)
                 dzY == applyDeadzone(rawY, deadzone)
                 v == normalize2(dzX, -dzY)
                 jump == btn_p0(pad, 0) \/ btn_p0(pad, 1)
                 sprint == btn_p0(pad, 10) \/ btn_p0(pad, 11) \/ btn_p0(pad, 4)
                           \/ btn_p0(pad, 5)
             IN  [x |-> v.x, y |-> v.y, jump |-> jump, sprint |-> sprint]

\* part_000, update(): what it leaves in this._gp, in the local axis, in
\* this._smoothed and in this.state, and the snapshot it returns, from the
\* touch state t, the keyboard state k, the accumulator sm and the hardware
\* snapshot pad.
update_p0(t, k, sm, pad, deadzone, smooth) ==
    LET g == pollGamepad_p0(pad, deadzone)
        c == candidates(t, g, k)
        preferred == findPreferred(c)
        a == IF preferred # 0 THEN c[preferred]
             ELSE [x |-> clamp(t.x + g.x + k.x, -Scale, Scale),
                   y |-> clamp(t.y + g.y + k.y, -Scale, Scale)]
        s == [x |-> lerp(sm.x, a.x, blendFactor(smooth)),
              y |-> lerp(sm.y, a.y, blendFactor(smooth))]
        jump == t.jump \/ k.jump \/ g.jump
        sprint == t.sprint \/ k.sprint \/ g.sprint
        st == [x |-> s.x, y |-> s.y, jump |-> jump, sprint |-> sprint]
    IN  [gp |-> g, axis |-> a, smoothed |-> s, state |-> st, ret |-> getState(st)]

\* part_000, destroy(): the window listeners, this._ui and the document after
\* it.  _detachTouchUI(): if (!this._ui) return; this._ui.remove(); this._ui = null;
destroy_p0(w, u, d) ==
    LET win == w \ {"keydown", "keyup"}
    IN  IF u = "null" THEN [win |-> win, ui |-> u, dom |-> d, threw |-> FALSE]
        ELSE [win |-> win, ui |-> "null", dom |-> [d EXCEPT !.ui = FALSE], threw |-> FALSE]

\* part_000, onJoyUp(e): the new this._touch.
\* this._touch.x = 0; this._touch.y = 0;
onJoyUp_p0(t, e) ==
    IF ~t.active \/ getPointerId(e) # t.pointerId THEN t
    ELSE LET t1 == [t EXCEPT !.active = FALSE]
             t2 == [t1 EXCEPT !.pointerId = NoPointerId]
             t3 == [t2 EXCEPT !.x = 0]
         IN  [t3 EXCEPT !.y = 0]

\* part_000, setPointerCaptureSafe / releasePointerCaptureSafe:
\* try { if (el.setPointerCapture && e.pointerId != null) el.setPointerCapture(e.pointerId); } catch {}
\* Whether an error leaves the call, for each outcome of the browser's method.
pointerCaptureSafe_p0(outcome) == FALSE

-----------------------------------------------------------------------------
(* SpecVariants: one run of key events on two keys of one direction,       *)
(* pointer events on the joystick, gamepad snapshots, update(), getState() *)
(* and destroy(), under the default options.                               *)

InitVariants == Construct(DefaultOpts, TRUE, TRUE)

NextVariants ==
    \/ \E key \in {"d", "ArrowRight"} : KeyDown(key)
    \/ \E key \in {"d", "ArrowRight"} : KeyUp(key)
    \/ JoyPointerDown(Event(1, PressA), "ok")
    \/ PointerMove(Event(1, MoveFar))
    \/ PointerEnd("pointerup", Event(1, PressA), "ok")
    \/ \E pad \in {NoGamepad, PadA} : Update(pad)
    \/ GetState
    \/ Destroy

SpecVariants == InitVariants /\ [][NextVariants]_vars

\* The keys, pointer events and gamepad snapshots the handlers of the two
\* variants are compared on.
VariantKeys ==
    {"w", "a", "s", "d", "W", "ArrowUp", "ArrowDown", "ArrowLeft", "ArrowRight", " ", "Shift"}

VariantEvents ==
    {Event(id, p) : id \in {1, 2, NoPointerId}, p \in {PressA, MoveFar, MoveDiag}}

VariantPads == {NoGamepadApi, NoGamepad, PadA, PadB, PadCorner}

\* In the state the manager of src/src/input.js holds, each handler of
\* part_000 gives what the handler of src/src/input.js gives, for every
\* event.
VariantHandlersAgree ==
    /\ \A key \in VariantKeys :
           /\ onKeyDown_p0(kb, key) = onKeyDown(kb, key)
           /\ onKeyUp_p0(kb, key) = onKeyUp(kb, key)
    /\ \A e \in VariantEvents : onJoyUp_p0(touch, e) = onJoyUp(touch, e)
    /\ \A c \in CaptureOutcomes : pointerCaptureSafe_p0(c) = pointerCaptureSafe(c)
    /\ \A pad \in VariantPads :
           pollGamepad_p0(pad, cfg.deadzone) = pollGamepad(pad, cfg.deadzone)

\* A step of update() or destroy() of src/src/input.js leaves what the method
\* of part_000, called in the same state with the same gamepad snapshot,
\* leaves and returns.
VariantStepsAgree ==
    /\ op'.name = "update"
          => update_p0(touch, kb, smoothed, hw', cfg.deadzone, cfg.smooth)
                = [gp |-> gp', axis |-> axis', smoothed |-> smoothed',
                   state |-> state', ret |-> ret']
    /\ op'.name = "destroy"
          => destroy_p0(winListeners, ui, dom)
                = [win |-> winListeners', ui |-> ui', dom |-> dom', threw |-> threw']

\* C33: the two InputManager variants (src/src/input.js and
\* src/unnamed/part_000) are behaviourally equivalent: in every state a run
\* of key events, pointer events, gamepad snapshots, update(), getState() and
\* destroy() calls reaches, every handler and method of part_000 leaves the
\* internal state and returns the snapshot that src/src/input.js does; so
\* started from the same configuration and fed the same sequence, the two
\* hold the same internal state after every step and return the same
\* snapshots.
C33_VariantsEquivalent ==
    []VariantHandlersAgree /\ [][VariantStepsAgree]_vars

\* After a destroy(), with a key and the joystick held and a gamepad
\* connected, a second update() has returned a nonzero axis and a pressed
\* jump.
C33_Witness ==
    /\ op.name = "update" /\ nUpdates >= 2 /\ destroyCalls >= 1
    /\ kb.keys # {} /\ touch.active /\ hw.connected
    /\ ret.valid /\ ret.x # 0 /\ ret.jump

=============================================================================
